---- MODULE Spec2Model ----
\* Verification model of mission-data-pipeline (mdp):
\*   - the pipeline orchestrator  (src/src/mdp/core/pipeline.py, core/base.py)
\*   - the binary stream scanner  (src/src/mdp/plugins/extractors/binary.py,
\*                                 src/src/mdp/models/packet.py)
\*   - decommutation              (src/src/mdp/plugins/transformers/decom.py)
\*   - calibration                (src/src/mdp/plugins/transformers/calibration.py)
\*   - dataset merge              (src/src/mdp/models/dataset.py)
EXTENDS Integers, Sequences, FiniteSets, TLC

\* ------------------------------------------------------------------ bounds
\* Largest number of transformers configured on a pipeline.
MaxTransformers == 2
\* Largest number of batches the extractor of a pipeline yields.
MaxAvail == 2
\* Packets in a batch as the extractor yields it.
BatchLen == 2
\* Number of times run() is called on one Pipeline object.
MaxRuns == 2
\* Largest number of packets written to a scanned buffer.
MaxPackets == 4
\* Largest configured batch_size of the scanner.
MaxBatchSize == 3
\* Largest data_length of a header a packet is constructed or parsed with.
MaxDataLen == 3
\* Largest sec_hdr_length handed to TelemetryPacket.from_bytes.
MaxSecHdrLen == 2
\* Largest number of packets in a batch handed to DecomTransformer.
MaxDecomPackets == 2
\* Largest number of parameter definitions in a DecomConfig.
MaxDefs == 2
\* Calibration entries in a CalibrationConfig.
MaxCals == 2
\* Samples in a parameter record handed to the calibration transformer.
MaxSamples == 2
\* Samples in a parameter record of a dataset that is merged.
MaxMergeSamples == 1
\* Largest of the consecutive raw values _interpolate is called with.
MaxRaw == 20
\* Largest number of pieces (stray bytes, sync markers, packets) a buffer
\* scanned to its end is put together from.
MaxChunks == 3
\* Largest number of registrations on the list of an EventHook.
MaxRegistrations == 3
\* Threads that share a PipelineMetrics.
MaxThreads == 2
\* Calls of record_batch and record_stage the threads make in all.
MaxMetricCalls == 3
\* Batches handed to a loader one after the other.
MaxLoads == 2

\* ------------------------------------------------------------ pipeline state
VARIABLES
    cfg,            \* PipelineConfig + the stages given to Pipeline.__init__
    src,            \* what extractor.extract() does: n batches, then stop or raise
    pc,             \* "idle" | "extract" | "transform" | "load" | "done"
    runs,           \* number of run() calls started
    metrics,        \* Pipeline._metrics: [batches, total_packets]
    pulled,         \* batches the extractor has yielded in this run
    dataset,        \* run(): the local `dataset`
    tIdx,           \* _run_transformers(): position in self.transformers (1-based)
    t_errors,       \* _run_transformers(): the local `errors`
    errors,         \* run(): the local `errors`
    batches,        \* run(): the local `batches`
    total_packets,  \* run(): the local `total_packets`
    result,         \* the PipelineResult run() returned (NoResult before)
    \* history of the run, for stating the properties
    lastCall,       \* the latest call made on a stage (extractor, transformer, loader)
    nraised,        \* exceptions raised by stages in this run
    stageFailed,    \* a transformer or loader call has failed in this run
    nTransformCalls,\* _timed_transform calls in this run
    nLoadCalls,     \* _timed_load calls in this run
    packetsDone     \* packets held, after their transformers, by the batches of
                    \* this run whose processing ended without an abort

pvars == <<cfg, src, pc, runs, metrics, pulled, dataset, tIdx, t_errors, errors,
           batches, total_packets, result, lastCall, nraised, stageFailed,
           nTransformCalls, nLoadCalls, packetsDone>>

\* -------------------------------------------------------------- scanner state
VARIABLES
    scfg,      \* BinaryExtractorConfig: batch_size, apid_filter (filter_set: it is
               \* not None; apid_filter: its elements), sec_hdr_length, frame_sync
    buf,       \* the bytes of the file, as _parse_buffer receives them
    bkinds,    \* the kinds of the packets the buffer was built from, in order
    bprefix,   \* what was written before each of those packets
    btail,     \* what was written after the last of them
    spc,       \* "scan" while the generator is in its loop, "end" once exhausted,
               \* "raised" if an exception left it
    pos,       \* buffer.tell(): the read cursor
    sdataset,  \* _parse_buffer: the packets of the local `dataset`
    count,     \* _parse_buffer: the local `count`
    yielded,   \* the batches the generator has yielded so far, in order
    spans      \* for each packet added to a dataset so far, in order, the cursor
               \* before its header was read and the cursor after its data field

svars == <<scfg, buf, bkinds, bprefix, btail, spc, pos, sdataset, count, yielded,
           spans>>

\* ---------------------------------------------------------------- codec state
VARIABLES
    cop,       \* the codec operation called: "none" | "encode" | "decode" |
               \* "roundtrip" (decode of what encode returned) | "construct" |
               \* "parse"
    cin,       \* its arguments
    cout       \* what it returned, or that it raised

cvars == <<cop, cin, cout>>

\* ---------------------------------------------------------------- decom state
VARIABLES
    dcfg,      \* DecomConfig: parameters (list of ParameterDefinition),
               \* skip_unknown_apids
    dpackets,  \* dataset.packets of the batch handed to transform()
    dparams,   \* dataset.parameters: the records in insertion order, each
               \* [name, unit, samples]
    dk,        \* packets of the batch the loop of transform() has gone past
    dpc,       \* "idle" | "run" (inside transform) | "done" (returned) |
               \* "raised" (left by an exception)
    dstage     \* once _timed_transform has returned to _run_transformers: the
               \* status of its StageResult, the pipeline's stop_on_error,
               \* whether the stages that follow are called on the batch, and
               \* the dataset.parameters they are called with

dvars == <<dcfg, dpackets, dparams, dk, dpc, dstage>>

\* ---------------------------------------------------------- calibration state
VARIABLES
    kcfg,      \* CalibrationConfig: calibrations (list of CalibrationEntry)
    kparams,   \* dataset.parameters: the records in insertion order
    kpackets,  \* dataset.packets of the batch
    kr,        \* records the loop of transform() has gone past
    kpc,       \* "idle" | "run" (inside transform) | "done" | "raised"
    kpass,     \* calls of transform() made on the batch so far
    kfirst     \* dataset.parameters as the first call of transform() left them

kvars == <<kcfg, kparams, kpackets, kr, kpc, kpass, kfirst>>

\* ---------------------------------------------------------- _interpolate call
VARIABLES
    iin,       \* the arguments x, xs, ys
    iout,      \* the value returned, or the exception raised
    ipc        \* "idle" | "call" | "returned"

ivars == <<iin, iout, ipc>>

\* ---------------------------------------------------------------- merge state
VARIABLES
    mheap,     \* the ParameterRecord objects, by identity: [name, unit, samples]
    mheap0,    \* history: the ParameterRecord objects before any merge
    mdatasets  \* the TelemetryDataset objects, by the variable that holds them:
               \* [packets, metadata, parameters], parameters being the dict in
               \* insertion order as <<[name, rec]>>, rec the identity of the
               \* record stored under the name

mvars == <<mheap, mheap0, mdatasets>>

\* ---------------------------------------------------------------- event hook
VARIABLES
    hhandlers, \* EventHook._handlers: the registered handlers, one entry per
               \* registration, in registration order
    hcall,     \* the handlers on the list when fire was called
    hidx,      \* how many of them the loop of fire has visited
    hinvoked,  \* the handlers the present (or last) fire invoked, in order
    hpc,       \* "idle" | "firing" | "returned" | "raised"
    hgone,     \* history: the handlers whose latest register/unregister call
               \* is an unregister
    hgone0     \* history: hgone when fire was called

hvars == <<hhandlers, hcall, hidx, hinvoked, hpc, hgone, hgone0>>

\* ------------------------------------------------------- PipelineMetrics state
VARIABLES
    pmlock,    \* PipelineMetrics._lock: 0 when free, else the thread holding it
    pmcount,   \* _batches and _total_packets
    pmstages,  \* _stages: the StageMetric of every stage name recorded
    thr,       \* the threads: where each is in its record_* call, the call's
               \* arguments, the value it has read and not yet written back
    pmdone,    \* history: the sums over the calls that have returned
    pmcalls    \* history: how many calls have been made

tvars == <<pmlock, pmcount, pmstages, thr, pmdone, pmcalls>>

\* ------------------------------------------------------------- loader state
VARIABLES
    lcfg,      \* the loader and its configuration: kind ("csv" | "parquet"),
               \* overwrite
    lfiles,    \* output_dir: the file of every parameter, or NoFile
    lloaded    \* history: the batches handed to load(), in order

lvars == <<lcfg, lfiles, lloaded>>

vars == <<pvars, svars, cvars, dvars, kvars, ivars, mvars, hvars, tvars, lvars>>

\* max_batches: int | None = None
NoLimit == -1

\* Python truthiness of `self.config.max_batches` (None and 0 are falsy).
Truthy(x) == x # NoLimit /\ x # 0

NoDataset == [batch |-> -1, packets |-> 0, applied |-> <<>>]
NoResult == [status |-> "PENDING", batches_processed |-> 0, total_packets |-> 0,
             errors |-> <<>>]
NoCall == [op |-> "none", batch |-> -1, idx |-> 0, din |-> NoDataset,
           dout |-> NoDataset, status |-> "none", calls |-> <<>>]

\* len(dataset)
DsLen(ds) == ds.packets

\* An exception object: it has an identity (the n-th exception raised in the run)
\* and nothing else the pipeline adds.
Exc(n) == [exc_id |-> n]

StageStatus == {"PENDING", "RUNNING", "SUCCESS", "FAILED", "SKIPPED"}

\* ------------------------------------------------------------- stage calls
\* What one call of a transformer does: succeed keeping every packet, succeed
\* dropping a packet (a filter), raise in setup(), or raise in transform().
TransformOutcomes == {"ok", "ok_filter", "setup_raises", "transform_raises"}

\* What one call of the loader does.
LoadOutcomes == {"ok", "setup_raises", "load_raises"}

\* Mutant: teardown() follows the body only when nothing was raised.
StageCalls_NoFinally(body, outcome) ==
    IF outcome = "setup_raises" THEN <<"setup">>
    ELSE IF outcome \in {"transform_raises", "load_raises"}
         THEN <<"setup", body>>
         ELSE <<"setup", body, "teardown">>

\* _timed_transform / _timed_load: the methods called on the stage, in order:
\* `try: self.setup(); self.<body>(dataset) ... finally: self.teardown()`.
StageCalls(body, outcome) ==
    IF outcome = "setup_raises" THEN <<"setup", "teardown">>
    ELSE <<"setup", body, "teardown">>

\* Transformer.transform(dataset) when it returns.
Transform(i, ds, outcome) ==
    IF outcome = "ok_filter"
    THEN [ds EXCEPT !.packets = IF @ > 0 THEN @ - 1 ELSE 0,
                    !.applied = Append(@, i)]
    ELSE [ds EXCEPT !.applied = Append(@, i)]

\* Transformer._timed_transform(dataset): (dataset, StageResult).
\* `error` is <<>> for None and <<exc>> for a caught exception.
TimedTransform(i, ds, outcome, n) ==
    IF outcome \in {"ok", "ok_filter"}
    THEN LET out == Transform(i, ds, outcome) IN
         [dataset |-> out, status |-> "SUCCESS", records_in |-> DsLen(ds),
          records_out |-> DsLen(out), error |-> <<>>]
    ELSE [dataset |-> ds, status |-> "FAILED", records_in |-> DsLen(ds),
          records_out |-> 0, error |-> <<Exc(n)>>]

\* Mutant: the exception caught around load() is not put into the StageResult.
TimedLoad_Swallows(ds, outcome, n) ==
    IF outcome = "ok"
    THEN [status |-> "SUCCESS", records_in |-> DsLen(ds), records_out |-> 0,
          error |-> <<>>]
    ELSE [status |-> "FAILED", records_in |-> DsLen(ds), records_out |-> 0,
          error |-> <<>>]

\* Loader._timed_load(dataset): StageResult.
TimedLoad(ds, outcome, n) ==
    IF outcome = "ok"
    THEN [status |-> "SUCCESS", records_in |-> DsLen(ds), records_out |-> 0,
          error |-> <<>>]
    ELSE [status |-> "FAILED", records_in |-> DsLen(ds), records_out |-> 0,
          error |-> <<Exc(n)>>]

\* The batch the extractor yields as its k-th (0-based).
NewBatch(k) == [batch |-> k, packets |-> BatchLen, applied |-> <<>>]

\* ------------------------------------------------------ decisions of run()
\* Mutant: the dataset a transformer returns is dropped.
ChainDataset_Stale(ds, r) == ds

\* _run_transformers: `dataset, result = transformer._timed_transform(dataset)`
ChainDataset(ds, r) == r.dataset

\* Mutant: the transformer loop breaks on any error, whatever stop_on_error is.
BreakTransformers_Always(r) == r.error # <<>>

\* _run_transformers: `if result.error: ... if self.config.stop_on_error: break`
BreakTransformers(r) == r.error # <<>> /\ cfg.stop_on_error

\* run(): `if t_errors and self.config.stop_on_error: break`
StopAfterTransformers(t_errs) == t_errs # <<>> /\ cfg.stop_on_error

\* Mutant: dry_run is not consulted.
LoaderEnabled_IgnoresDryRun == cfg.has_loader

\* run(): `if self.loader and not self.config.dry_run:`
LoaderEnabled == cfg.has_loader /\ ~cfg.dry_run

\* Mutant: a loader failure never breaks the loop.
StopAfterLoad_Never(r) == FALSE

\* run(): `if load_result.error: ... if self.config.stop_on_error: break`
StopAfterLoad(r) == r.error # <<>> /\ cfg.stop_on_error

\* Mutant: a limit of 0 is tested like any other number.
LimitReached_ZeroIsLimit(b) ==
    cfg.max_batches # NoLimit /\ b >= cfg.max_batches

\* Mutant: the limit test is off by one.
LimitReached_OffByOne(b) == Truthy(cfg.max_batches) /\ b > cfg.max_batches

\* run(): `if self.config.max_batches and batches >= self.config.max_batches:`
LimitReached(b) == Truthy(cfg.max_batches) /\ b >= cfg.max_batches

\* Mutant: the status does not look at the errors.
RunStatus_AlwaysSuccess(errs) == "SUCCESS"

\* run(): `status = StageStatus.SUCCESS if not errors else StageStatus.FAILED`
RunStatus(errs) == IF errs = <<>> THEN "SUCCESS" ELSE "FAILED"

\* PipelineMetrics.record_batch(packet_count)
RecordBatch(m, packet_count) ==
    [m EXCEPT !.batches = @ + 1, !.total_packets = @ + packet_count]

\* Mutant: a failed run reports no processed batches and no packets.
MakeResult_ResetsOnError(errs, b, tp) ==
    [status |-> RunStatus(errs),
     batches_processed |-> IF errs = <<>> THEN b ELSE 0,
     total_packets |-> IF errs = <<>> THEN tp ELSE 0,
     errors |-> errs]

\* run(): the PipelineResult built after the loop.
MakeResult(errs, b, tp) ==
    [status |-> RunStatus(errs), batches_processed |-> b, total_packets |-> tp,
     errors |-> errs]

\* ------------------------------------------------------- control flow of run()
\* The locals of run() after a step; on "done" the result is returned.
Goto(p, ds, ti, terrs, errs, b, tp, m) ==
    /\ pc' = p
    /\ dataset' = ds
    /\ tIdx' = ti
    /\ t_errors' = terrs
    /\ errors' = errs
    /\ batches' = b
    /\ total_packets' = tp
    /\ metrics' = m
    /\ result' = IF p = "done" THEN MakeResult(errs, b, tp) ELSE result

\* run(): the end of the loop body, after the loader step.
AfterLoad(ds, errs) ==
    LET b == batches + 1
        tp == total_packets + DsLen(ds)
        m == RecordBatch(metrics, DsLen(ds))
    IN IF LimitReached(b)
       THEN Goto("done", ds, 0, <<>>, errs, b, tp, m)
       ELSE Goto("extract", ds, 0, <<>>, errs, b, tp, m)

\* Mutant: the loader call is left out and the batch counted at once.
AfterTransformers_SkipsLoad(ds, terrs) ==
    LET errs == errors \o terrs IN
    IF StopAfterTransformers(terrs)
    THEN Goto("done", ds, 0, <<>>, errs, batches, total_packets, metrics)
    ELSE AfterLoad(ds, errs)

\* run(): from the return of _run_transformers to the loader call.
AfterTransformers(ds, terrs) ==
    LET errs == errors \o terrs IN
    IF StopAfterTransformers(terrs)
    THEN Goto("done", ds, 0, <<>>, errs, batches, total_packets, metrics)
    ELSE IF LoaderEnabled
         THEN Goto("load", ds, 0, <<>>, errs, batches, total_packets, metrics)
         ELSE AfterLoad(ds, errs)

\* The call (op, idx) that has just returned was the last step of its batch and
\* did not abort the run: the batch counts as processed.
BatchFinishedBy(op, idx, failed) ==
    /\ ~(cfg.stop_on_error /\ failed)
    /\ \/ op = "load"
       \/ /\ ~(cfg.has_loader /\ ~cfg.dry_run)
          /\ \/ op = "transform" /\ idx = cfg.n_transformers
             \/ op = "extract" /\ cfg.n_transformers = 0

\* ---------------------------------------------------------------- actions
\* Pipeline.run() is called: its locals are initialised.
StartRun ==
    /\ pc \in {"idle", "done"}
    /\ runs < MaxRuns
    /\ runs' = runs + 1
    /\ pulled' = 0
    /\ lastCall' = NoCall
    /\ nraised' = 0
    /\ stageFailed' = FALSE
    /\ nTransformCalls' = 0
    /\ nLoadCalls' = 0
    /\ packetsDone' = 0
    /\ result' = NoResult
    /\ pc' = "extract"
    /\ dataset' = NoDataset
    /\ tIdx' = 0
    /\ t_errors' = <<>>
    /\ errors' = <<>>
    /\ batches' = 0
    /\ total_packets' = 0
    /\ UNCHANGED <<cfg, src, metrics>>
    /\ UNCHANGED <<svars, cvars, dvars, kvars, ivars, mvars, hvars, tvars, lvars>>

\* Pipeline.add_transformer(transformer), between runs. The result of an
\* earlier run is no longer looked at once the pipeline has been changed.
AddTransformer ==
    /\ pc \in {"idle", "done"}
    /\ cfg.n_transformers < MaxTransformers
    /\ cfg' = [cfg EXCEPT !.n_transformers = @ + 1]
    /\ pc' = "idle"
    /\ pulled' = 0
    /\ lastCall' = NoCall
    /\ nraised' = 0
    /\ stageFailed' = FALSE
    /\ nTransformCalls' = 0
    /\ nLoadCalls' = 0
    /\ packetsDone' = 0
    /\ result' = NoResult
    /\ dataset' = NoDataset
    /\ tIdx' = 0
    /\ t_errors' = <<>>
    /\ errors' = <<>>
    /\ batches' = 0
    /\ total_packets' = 0
    /\ UNCHANGED <<src, runs, metrics>>
    /\ UNCHANGED <<svars, cvars, dvars, kvars, ivars, mvars, hvars, tvars, lvars>>

\* run(): the for loop asks the extractor's generator for the next batch.
ExtractNext ==
    /\ pc = "extract"
    /\ UNCHANGED <<cfg, src, runs, stageFailed, nTransformCalls, nLoadCalls>>
    /\ UNCHANGED <<svars, cvars, dvars, kvars, ivars, mvars, hvars, tvars, lvars>>
    /\ IF pulled < src.n
       THEN LET ds == NewBatch(pulled) IN
            /\ pulled' = pulled + 1
            /\ packetsDone' = packetsDone
                  + (IF BatchFinishedBy("extract", 0, FALSE) THEN DsLen(ds) ELSE 0)
            /\ nraised' = nraised
            /\ lastCall' = [op |-> "extract", batch |-> pulled, idx |-> 0,
                            din |-> NoDataset, dout |-> ds, status |-> "ok",
                            calls |-> <<"extract">>]
            /\ IF cfg.n_transformers > 0
               THEN Goto("transform", ds, 1, <<>>, errors, batches,
                         total_packets, metrics)
               ELSE AfterTransformers(ds, <<>>)
       ELSE IF src.raises
            THEN \* `except Exception as exc: errors.append(exc)`
                 /\ pulled' = pulled
                 /\ packetsDone' = packetsDone
                 /\ nraised' = nraised + 1
                 /\ lastCall' = [op |-> "extract", batch |-> pulled, idx |-> 0,
                                 din |-> NoDataset, dout |-> NoDataset,
                                 status |-> "raised",
                                 calls |-> <<"extract">>]
                 /\ Goto("done", dataset, 0, <<>>,
                         Append(errors, Exc(nraised + 1)), batches,
                         total_packets, metrics)
            ELSE \* StopIteration: the loop ends
                 /\ pulled' = pulled
                 /\ packetsDone' = packetsDone
                 /\ nraised' = nraised
                 /\ lastCall' = [op |-> "extract", batch |-> pulled, idx |-> 0,
                                 din |-> NoDataset, dout |-> NoDataset,
                                 status |-> "stop",
                                 calls |-> <<"extract">>]
                 /\ Goto("done", dataset, 0, <<>>, errors, batches,
                         total_packets, metrics)

\* _run_transformers: one iteration of `for transformer in self.transformers`.
TransformStep ==
    /\ pc = "transform"
    /\ \E outcome \in TransformOutcomes :
          LET r == TimedTransform(tIdx, dataset, outcome, nraised + 1)
              ds == ChainDataset(dataset, r)
              terrs == t_errors \o r.error
          IN /\ nraised' = nraised + Len(r.error)
             /\ stageFailed' = (stageFailed \/ r.error # <<>>)
             /\ nTransformCalls' = nTransformCalls + 1
             /\ packetsDone' = packetsDone
                   + (IF BatchFinishedBy("transform", tIdx, r.error # <<>>)
                      THEN DsLen(r.dataset) ELSE 0)
             /\ lastCall' = [op |-> "transform", batch |-> dataset.batch,
                             idx |-> tIdx, din |-> dataset, dout |-> r.dataset,
                             status |-> r.status,
                             calls |-> StageCalls("transform", outcome)]
             /\ IF ~BreakTransformers(r) /\ tIdx < cfg.n_transformers
                THEN Goto("transform", ds, tIdx + 1, terrs, errors, batches,
                          total_packets, metrics)
                ELSE AfterTransformers(ds, terrs)
    /\ UNCHANGED <<cfg, src, runs, pulled, nLoadCalls>>
    /\ UNCHANGED <<svars, cvars, dvars, kvars, ivars, mvars, hvars, tvars, lvars>>

\* run(): `load_result = self.loader._timed_load(dataset)` and what follows.
LoadStep ==
    /\ pc = "load"
    /\ \E outcome \in LoadOutcomes :
          LET r == TimedLoad(dataset, outcome, nraised + 1)
              errs == errors \o r.error
          IN /\ nraised' = nraised + Len(r.error)
             /\ stageFailed' = (stageFailed \/ r.error # <<>>)
             /\ nLoadCalls' = nLoadCalls + 1
             /\ packetsDone' = packetsDone
                   + (IF BatchFinishedBy("load", 0, r.error # <<>>)
                      THEN DsLen(dataset) ELSE 0)
             /\ lastCall' = [op |-> "load", batch |-> dataset.batch, idx |-> 0,
                             din |-> dataset, dout |-> dataset,
                             status |-> r.status,
                             calls |-> StageCalls("load", outcome)]
             /\ IF StopAfterLoad(r)
                THEN Goto("done", dataset, 0, <<>>, errs, batches,
                          total_packets, metrics)
                ELSE AfterLoad(dataset, errs)
    /\ UNCHANGED <<cfg, src, runs, pulled, nTransformCalls>>
    /\ UNCHANGED <<svars, cvars, dvars, kvars, ivars, mvars, hvars, tvars, lvars>>

\* ================================================================ scanner
\* src/src/mdp/plugins/extractors/binary.py
SYNC_MARKER == <<26, 207, 252, 29>>
CCSDS_HEADER_SIZE == 6

Min(a, b) == IF a <= b THEN a ELSE b

\* io.BytesIO.read(n) at cursor p (0-based): the bytes read (at most n).
Read(b, p, n) == SubSeq(b, p + 1, Min(p + n, Len(b)))

\* The cursor after io.BytesIO.read(n) at cursor p.
Advance(b, p, n) == Min(p + n, Len(b))

\* ------------------------------------------------- CCSDSPrimaryHeader codec
\* The field constraints of CCSDSPrimaryHeader (pydantic validation).
HeaderValid(h) ==
    /\ h.version \in 0 .. 7
    /\ h.type_flag \in 0 .. 1
    /\ h.sec_hdr_flag \in 0 .. 1
    /\ h.apid \in 0 .. 2047
    /\ h.seq_flags \in 0 .. 3
    /\ h.seq_count \in 0 .. 16383
    /\ h.data_length \in 0 .. 65535

\* Mutant: the secondary-header flag is shifted to the wrong bit.
ToBytes_FlagMisplaced(h) ==
    LET word0 == h.version * 8192 + h.type_flag * 4096 + h.sec_hdr_flag * 1024
                 + h.apid
        word1 == h.seq_flags * 16384 + h.seq_count
        word2 == h.data_length
    IN <<(word0 \div 256) % 256, word0 % 256, word1 \div 256, word1 % 256,
         word2 \div 256, word2 % 256>>

\* CCSDSPrimaryHeader.to_bytes
ToBytes(h) ==
    LET word0 == h.version * 8192 + h.type_flag * 4096 + h.sec_hdr_flag * 2048
                 + h.apid
        word1 == h.seq_flags * 16384 + h.seq_count
        word2 == h.data_length
    IN <<word0 \div 256, word0 % 256, word1 \div 256, word1 % 256,
         word2 \div 256, word2 % 256>>

\* CCSDSPrimaryHeader.from_bytes: [ok, header]; ok is FALSE when it raises
\* ValueError (fewer than 6 bytes, or a field out of range).
NoHeader == [version |-> 0, type_flag |-> 0, sec_hdr_flag |-> 0, apid |-> 0,
             seq_flags |-> 0, seq_count |-> 0, data_length |-> 0]

HeaderFromBytes(raw) ==
    IF Len(raw) < 6
    THEN [ok |-> FALSE, header |-> NoHeader]
    ELSE LET word0 == raw[1] * 256 + raw[2]
             word1 == raw[3] * 256 + raw[4]
             word2 == raw[5] * 256 + raw[6]
             h == [version |-> (word0 \div 8192) % 8,
                   type_flag |-> (word0 \div 4096) % 2,
                   sec_hdr_flag |-> (word0 \div 2048) % 2,
                   apid |-> word0 % 2048,
                   seq_flags |-> (word1 \div 16384) % 4,
                   seq_count |-> word1 % 16384,
                   data_length |-> word2]
         IN [ok |-> HeaderValid(h), header |-> h]

\* CCSDSPrimaryHeader.packet_data_length
PacketDataLength(h) == h.data_length + 1

\* CCSDSPrimaryHeader.total_length
TotalLength(h) == 6 + PacketDataLength(h)

\* --------------------------------------------------- TelemetryPacket codec
\* Mutant: a data field shorter than declared is let through.
ValidateDataLength_AtMost(header, sec_hdr, user_data) ==
    Len(sec_hdr) + Len(user_data) <= PacketDataLength(header)

\* TelemetryPacket._validate_data_length
ValidateDataLength(header, sec_hdr, user_data) ==
    Len(sec_hdr) + Len(user_data) = PacketDataLength(header)

NoPacket == [header |-> NoHeader, secondary_header |-> <<>>, user_data |-> <<>>]

\* Mutant: data that does not fit the declared length is cut or zero-padded.
NewPacket_Fits(header, sec_hdr, user_data) ==
    LET want == PacketDataLength(header) - Len(sec_hdr)
        n == IF want < 0 THEN 0 ELSE want
    IN [ok |-> TRUE,
        packet |-> [header |-> header, secondary_header |-> sec_hdr,
                    user_data |-> [i \in 1 .. n |->
                                      IF i <= Len(user_data) THEN user_data[i]
                                      ELSE 0]]]

\* TelemetryPacket(header=..., secondary_header=..., user_data=...): [ok,
\* packet]; ok is FALSE when the model validator raises and no packet exists.
NewPacket(header, sec_hdr, user_data) ==
    IF ValidateDataLength(header, sec_hdr, user_data)
    THEN [ok |-> TRUE,
          packet |-> [header |-> header, secondary_header |-> sec_hdr,
                      user_data |-> user_data]]
    ELSE [ok |-> FALSE, packet |-> NoPacket]

\* TelemetryPacket.from_bytes(raw, sec_hdr_length): [ok, packet]; ok is FALSE
\* when construction raises ValueError and no packet exists.
PacketFromBytes(raw, sec_hdr_length) ==
    LET hr == HeaderFromBytes(SubSeq(raw, 1, Min(6, Len(raw)))) IN
    IF ~hr.ok
    THEN [ok |-> FALSE, packet |-> NoPacket]
    ELSE LET header == hr.header
             data_field == SubSeq(raw, 7, Min(6 + PacketDataLength(header), Len(raw)))
             sec_hdr == IF header.sec_hdr_flag = 1 /\ sec_hdr_length > 0
                        THEN SubSeq(data_field, 1, Min(sec_hdr_length, Len(data_field)))
                        ELSE <<>>
             user_data == SubSeq(data_field, Len(sec_hdr) + 1, Len(data_field))
         IN NewPacket(header, sec_hdr, user_data)

\* ------------------------------------------------------ BinaryPacketExtractor
\* BinaryPacketExtractor._seek_to_sync(buffer) at cursor p: [found, pos].
RECURSIVE SeekToSync(_, _)
SeekToSync(b, p) ==
    IF p >= Len(b)
    THEN [found |-> FALSE, pos |-> p]
    ELSE IF b[p + 1] = SYNC_MARKER[1]
         THEN LET candidate == <<b[p + 1]>> \o Read(b, p + 1, 3)
                  p2 == Advance(b, p + 1, 3)
              IN IF candidate = SYNC_MARKER
                 THEN [found |-> TRUE, pos |-> p2 - 4]
                 ELSE SeekToSync(b, p2)
         ELSE SeekToSync(b, p + 1)

\* `if self.config.apid_filter and header.apid not in self.config.apid_filter`
\* (apid_filter is None or a list; None and [] are falsy).
Filtered(apid) == scfg.apid_filter # {} /\ apid \notin scfg.apid_filter

\* `if count >= self.config.batch_size`
BatchFull(c) == c >= scfg.batch_size

\* Mutant: the last dataset is yielded whether or not it holds a packet.
FinalFlush_Always(ds, ys) == Append(ys, ds)

\* `if dataset.packets: yield dataset` after the loop.
FinalFlush(ds, ys) == IF ds # <<>> THEN Append(ys, ds) ELSE ys

\* Mutant: the packets accumulated since the last full batch are dropped.
ScanEnd_DropsPartial(p, ds, c, ys) ==
    [spc |-> "end", pos |-> p, dataset |-> ds, count |-> c, yielded |-> ys]

\* Mutant: running out of bytes is reported as an error.
ScanEnd_Raises(p, ds, c, ys) ==
    [spc |-> "raised", pos |-> p, dataset |-> ds, count |-> c, yielded |-> ys]

\* The generator ends: the loop was left with `break`.
ScanEnd(p, ds, c, ys) ==
    [spc |-> "end", pos |-> p, dataset |-> ds, count |-> c,
     yielded |-> FinalFlush(ds, ys)]

\* Mutant: the loop goes round again one byte short of where it stopped
\* reading.
ScanOn_StepsBack(p, ds, c, ys) ==
    [spc |-> "scan", pos |-> IF p > 0 THEN p - 1 ELSE 0, dataset |-> ds,
     count |-> c, yielded |-> ys]

\* The loop goes round again.
ScanOn(p, ds, c, ys) ==
    [spc |-> "scan", pos |-> p, dataset |-> ds, count |-> c, yielded |-> ys]

\* An exception leaves the generator: nothing more is yielded.
ScanRaise(p, ds, c, ys) ==
    [spc |-> "raised", pos |-> p, dataset |-> ds, count |-> c, yielded |-> ys]

\* _parse_buffer: one iteration of `while True`, from cursor p with the locals
\* `dataset` = ds, `count` = c and the batches ys yielded so far.
ParseIteration(p, ds, c, ys) ==
    LET sync == IF scfg.frame_sync THEN SeekToSync(buf, p)
                ELSE [found |-> TRUE, pos |-> p]
    IN IF ~sync.found
       THEN ScanEnd(sync.pos, ds, c, ys)
       ELSE
       LET p1 == IF scfg.frame_sync THEN Advance(buf, sync.pos, 4) ELSE sync.pos
           header_bytes == Read(buf, p1, CCSDS_HEADER_SIZE)
           p2 == Advance(buf, p1, CCSDS_HEADER_SIZE)
       IN IF Len(header_bytes) < CCSDS_HEADER_SIZE
          THEN ScanEnd(p2, ds, c, ys)
          ELSE
          LET hr == HeaderFromBytes(header_bytes) IN
          IF ~hr.ok
          THEN ScanOn(p2, ds, c, ys)
          ELSE
          LET header == hr.header
              data_field == Read(buf, p2, PacketDataLength(header))
              p3 == Advance(buf, p2, PacketDataLength(header))
          IN IF Len(data_field) < PacketDataLength(header)
             THEN ScanEnd(p3, ds, c, ys)
             ELSE IF Filtered(header.apid)
                  THEN ScanOn(p3, ds, c, ys)
                  ELSE
                  LET pr == PacketFromBytes(header_bytes \o data_field,
                                            scfg.sec_hdr_length)
                      ds1 == Append(ds, pr.packet)
                      c1 == c + 1
                  IN IF ~pr.ok
                     THEN ScanRaise(p3, ds, c, ys)
                     ELSE IF BatchFull(c1)
                          THEN ScanOn(p3, <<>>, 0, Append(ys, ds1))
                          ELSE ScanOn(p3, ds1, c1, ys)

\* The cursor at which the iteration entered at cursor p reads its header:
\* after `_seek_to_sync` and `buffer.read(4)` in frame-sync mode.
HeaderStart(p) ==
    IF scfg.frame_sync THEN Advance(buf, SeekToSync(buf, p).pos, 4) ELSE p

\* The packets in the batches ys.
RECURSIVE PacketCount(_)
PacketCount(ys) ==
    IF ys = <<>> THEN 0 ELSE Len(Head(ys)) + PacketCount(Tail(ys))

\* One iteration of the scanner's loop.
ScanStep ==
    /\ spc = "scan"
    /\ LET r == ParseIteration(pos, sdataset, count, yielded)
           added == (r.spc = "scan"
                     /\ PacketCount(r.yielded) + Len(r.dataset)
                           > PacketCount(yielded) + Len(sdataset))
       IN
       /\ spc' = r.spc
       /\ pos' = r.pos
       /\ sdataset' = r.dataset
       /\ count' = r.count
       /\ yielded' = r.yielded
       /\ spans' = IF added THEN Append(spans, <<HeaderStart(pos), r.pos>>)
                   ELSE spans
    /\ UNCHANGED <<scfg, buf, bkinds, bprefix, btail>>
    /\ UNCHANGED <<pvars, cvars, dvars, kvars, ivars, mvars, hvars, tvars, lvars>>

\* ------------------------------------------------------- scanned buffers
\* conftest.make_raw_packet(apid, seq_count, user_data, sec_hdr): the bytes of
\* one well-formed packet whose data field is `data`.
MakeRawPacket(apid, seq_count, sec, data) ==
    ToBytes([version |-> 0, type_flag |-> 0, sec_hdr_flag |-> sec, apid |-> apid,
             seq_flags |-> 3, seq_count |-> seq_count,
             data_length |-> Len(data) - 1]) \o data

\* The kinds of packet written to a buffer.
PacketKinds ==
    { [apid |-> 256, sec |-> 0, data |-> <<7>>],
      [apid |-> 512, sec |-> 1, data |-> <<1, 2>>],
      [apid |-> 256, sec |-> 1, data |-> <<3, 4, 5>>] }

\* What precedes each packet in the buffer: nothing, the sync marker, or
\* garbage and the sync marker (the garbage never holds the whole marker; it
\* may hold the marker's first byte).
Prefixes == { <<>>, SYNC_MARKER, <<255, 255>> \o SYNC_MARKER,
              <<26>> \o SYNC_MARKER }

\* A packet cut short: its header declares three data bytes, one follows.
TruncatedPacket ==
    ToBytes([version |-> 0, type_flag |-> 0, sec_hdr_flag |-> 0, apid |-> 256,
             seq_flags |-> 3, seq_count |-> 99, data_length |-> 2]) \o <<9>>

\* What follows the last packet: nothing, fewer than 6 bytes of garbage (ending
\* in the first half of a marker), or a packet cut short after the prefix pre.
Tails(pre) == { <<>>, <<255, 26, 207>>, pre \o TruncatedPacket }

\* The buffer holding the packets of kinds ks, each after the prefix pre; the
\* i-th packet (1-based) has sequence count i - 1.
RECURSIVE BuildBuffer(_, _, _)
BuildBuffer(ks, pre, i) ==
    IF i > Len(ks) THEN <<>>
    ELSE pre \o MakeRawPacket(ks[i].apid, i - 1, ks[i].sec, ks[i].data)
         \o BuildBuffer(ks, pre, i + 1)

KindSeqs == UNION { [1 .. n -> PacketKinds] : n \in 0 .. MaxPackets }

\* ================================================================== decom
\* src/src/mdp/plugins/transformers/decom.py
\* DecomTransformer.setup: self._apid_map.get(apid), the definitions of an
\* APID in configuration order; <<>> stands for None (a key is only ever
\* created with a definition in its list).
ApidDefs(apid) == SelectSeq(dcfg.parameters, LAMBDA d : d.apid = apid)

\* Mutant: an unknown APID always raises.
RaiseOnUnknown_Always == TRUE

\* `if not self.config.skip_unknown_apids: raise KeyError(...)`
RaiseOnUnknown == ~dcfg.skip_unknown_apids

\* `byte_count = (pdef.bit_length + 7) // 8`
ByteCount(pdef) == (pdef.bit_length + 7) \div 8

\* Mutant: a definition that ends exactly at the end of the user data is
\* taken not to fit.
Fits_Strict(packet, pdef) ==
    pdef.byte_offset + ByteCount(pdef) < Len(packet.user_data)

\* `if byte_start + byte_count > len(data): return None`
Fits(packet, pdef) ==
    pdef.byte_offset + ByteCount(pdef) <= Len(packet.user_data)

\* int.from_bytes(bs, "big")
RECURSIVE BigEndian(_)
BigEndian(bs) ==
    IF bs = <<>> THEN 0
    ELSE BigEndian(SubSeq(bs, 1, Len(bs) - 1)) * 256 + bs[Len(bs)]

\* int.from_bytes(bs, "little")
RECURSIVE LittleEndian(_)
LittleEndian(bs) ==
    IF bs = <<>> THEN 0 ELSE bs[1] + 256 * LittleEndian(Tail(bs))

\* 2 ** n
RECURSIVE Pow2(_)
Pow2(n) == IF n = 0 THEN 1 ELSE 2 * Pow2(n - 1)

\* A RawValue / EngValue: an int (n), a float (n/d), a bytes object (s) or a
\* str (s, its characters by code point).
IntValue(n) == [kind |-> "int", n |-> n, s |-> <<>>, d |-> 1]
BytesValue(bs) == [kind |-> "bytes", n |-> 0, s |-> bs, d |-> 1]
StrValue(cs) == [kind |-> "str", n |-> 0, s |-> cs, d |-> 1]

\* The bit lengths _STRUCT_FMTS has a format for, for uint and int.
StructBitLengths == {8, 16, 32, 64}

\* The code point of the lower-case hexadecimal digit d.
HexDigit(d) == IF d < 10 THEN 48 + d ELSE 87 + d

\* bytes.hex(): two digits a byte, high nibble first.
Hex(bs) ==
    [i \in 1 .. 2 * Len(bs) |->
        LET b == bs[(i + 1) \div 2]
        IN HexDigit(IF i % 2 = 1 THEN b \div 16 ELSE b % 16)]

\* `eng_value=raw_value if not isinstance(raw_value, bytes) else raw_value.hex()`
EngOfRaw(raw_value) ==
    IF raw_value.kind = "bytes" THEN StrValue(Hex(raw_value.s)) ELSE raw_value

\* Mutant: every integer is unpacked little-endian.
DecodeBytes_LittleOnly(raw_bytes, pdef) ==
    IF pdef.param_type = "binary" THEN BytesValue(raw_bytes)
    ELSE IntValue(LittleEndian(raw_bytes))

\* DecomTransformer._decode_bytes for uint, int and binary: struct.unpack with
\* the format of (param_type, bit_length) and the definition's endianness when
\* there is a format, the bytes themselves for binary, and otherwise
\* int.from_bytes (unsigned).
DecodeBytes(raw_bytes, pdef) ==
    LET u == IF pdef.little_endian THEN LittleEndian(raw_bytes)
             ELSE BigEndian(raw_bytes)
        half == Pow2(8 * Len(raw_bytes) - 1)
    IN IF pdef.param_type = "binary" THEN BytesValue(raw_bytes)
       ELSE IF /\ pdef.param_type = "int"
               /\ pdef.bit_length \in StructBitLengths
               /\ u >= half
            THEN IntValue(u - 2 * half)
            ELSE IntValue(u)

\* _extract_tai: source_time_tai is not set on these packets.
ExtractTai(packet) == packet.seq_count

\* DecomTransformer._extract_parameter when the definition fits: the sample.
ExtractParameter(packet, pdef) ==
    LET raw_bytes == SubSeq(packet.user_data, pdef.byte_offset + 1,
                            pdef.byte_offset + ByteCount(pdef))
        raw_value == DecodeBytes(raw_bytes, pdef)
    IN [name |-> pdef.name, apid |-> packet.apid,
        seq_count |-> packet.seq_count, sample_time_tai |-> ExtractTai(packet),
        raw_value |-> raw_value, eng_value |-> EngOfRaw(raw_value),
        unit |-> pdef.unit]

\* Mutant: the new sample replaces the samples of its record.
AddParameter_Replaces(ps, param) ==
    IF \E i \in 1 .. Len(ps) : ps[i].name = param.name
    THEN [i \in 1 .. Len(ps) |->
             IF ps[i].name = param.name
             THEN [ps[i] EXCEPT !.samples = <<param>>]
             ELSE ps[i]]
    ELSE Append(ps, [name |-> param.name, unit |-> param.unit,
                     samples |-> <<param>>])

\* TelemetryDataset.add_parameter(param) on the records ps.
AddParameter(ps, param) ==
    IF \E i \in 1 .. Len(ps) : ps[i].name = param.name
    THEN [i \in 1 .. Len(ps) |->
             IF ps[i].name = param.name
             THEN [ps[i] EXCEPT !.samples = Append(@, param)]
             ELSE ps[i]]
    ELSE Append(ps, [name |-> param.name, unit |-> param.unit,
                     samples |-> <<param>>])

\* transform(): `for pdef in defs:` from the i-th definition on, for one packet.
RECURSIVE ApplyDefs(_, _, _, _)
ApplyDefs(ps, packet, defs, i) ==
    IF i > Len(defs) THEN ps
    ELSE ApplyDefs(IF Fits(packet, defs[i])
                   THEN AddParameter(ps, ExtractParameter(packet, defs[i]))
                   ELSE ps,
                   packet, defs, i + 1)

\* _timed_transform has not returned.
NoStage == [status |-> "none", stop_on_error |-> FALSE, passed |-> FALSE,
            received |-> <<>>]

\* No batch has been handed to the transformer.
DecomIdle ==
    /\ dcfg = [parameters |-> <<>>, skip_unknown_apids |-> TRUE]
    /\ dpackets = <<>>
    /\ dparams = <<>>
    /\ dk = 0
    /\ dpc = "idle"
    /\ dstage = NoStage

\* transform(): one iteration of `for packet in dataset.iter_packets():`, or
\* the return when the packets are exhausted.
DecomStep ==
    /\ dpc = "run"
    /\ IF dk = Len(dpackets)
       THEN dpc' = "done" /\ UNCHANGED <<dk, dparams>>
       ELSE LET packet == dpackets[dk + 1]
                defs == ApidDefs(packet.apid)
            IN IF defs = <<>>
               THEN IF RaiseOnUnknown
                    THEN dpc' = "raised" /\ UNCHANGED <<dk, dparams>>
                    ELSE dk' = dk + 1 /\ UNCHANGED <<dpc, dparams>>
               ELSE /\ dparams' = ApplyDefs(dparams, packet, defs, 1)
                    /\ dk' = dk + 1
                    /\ UNCHANGED dpc
    /\ UNCHANGED <<dcfg, dpackets, dstage>>
    /\ UNCHANGED <<pvars, svars, cvars, kvars, ivars, mvars, hvars, tvars, lvars>>

\* Mutant: on failure the batch is handed on as it was when transform() was
\* entered, without the parameters added since.
ReturnedParameters_RolledBack(failed) == IF failed THEN <<>> ELSE dparams

\* _timed_transform: `return result, StageResult(...)` where transform() has
\* returned the dataset it was given, and `return dataset, StageResult(...)` in
\* the except clause: in both cases the object transform() worked on.
ReturnedParameters(failed) == dparams

\* _run_transformers and run(): the stages that follow are called on the batch
\* unless the transformer failed and stop_on_error is set.
PassedOn(failed, stop_on_error) == ~(failed /\ stop_on_error)

\* _timed_transform returns to _run_transformers, in a pipeline with either
\* setting of stop_on_error.
DecomReturn ==
    /\ dpc \in {"done", "raised"}
    /\ dstage = NoStage
    /\ \E stop_on_error \in BOOLEAN :
          LET failed == (dpc = "raised")
              passed == PassedOn(failed, stop_on_error)
          IN dstage' = [status |-> IF failed THEN "FAILED" ELSE "SUCCESS",
                        stop_on_error |-> stop_on_error,
                        passed |-> passed,
                        received |-> IF passed THEN ReturnedParameters(failed)
                                     ELSE <<>>]
    /\ UNCHANGED <<dcfg, dpackets, dparams, dk, dpc>>
    /\ UNCHANGED <<pvars, svars, cvars, kvars, ivars, mvars, hvars, tvars, lvars>>

\* The definitions a DecomConfig is made of.
DefSamples ==
    { [name |-> "a", apid |-> 256, byte_offset |-> 0, bit_length |-> 16,
       param_type |-> "uint", unit |-> "DN", little_endian |-> FALSE],
      [name |-> "b", apid |-> 256, byte_offset |-> 1, bit_length |-> 8,
       param_type |-> "int", unit |-> "V", little_endian |-> FALSE],
      [name |-> "a", apid |-> 512, byte_offset |-> 1, bit_length |-> 16,
       param_type |-> "uint", unit |-> "DN", little_endian |-> TRUE],
      [name |-> "d", apid |-> 256, byte_offset |-> 1, bit_length |-> 16,
       param_type |-> "binary", unit |-> "None", little_endian |-> FALSE] }

\* The byte values the first two bytes of a decommutated field are drawn from.
DecomBytes == {0, 255}

\* The packets a batch is made of, by APID and user data; the i-th packet of a
\* batch has sequence count i - 1.
DecomPacketSamples ==
    { [apid |-> 256, user_data |-> <<b0, b1>>] : b0, b1 \in DecomBytes } \cup
    { [apid |-> 256, user_data |-> <<1, 2>>],
      [apid |-> 256, user_data |-> <<1, 2, 171>>],
      [apid |-> 512, user_data |-> <<3, 4, 255>>],
      [apid |-> 512, user_data |-> <<9>>],
      [apid |-> 768, user_data |-> <<5>>] }

\* The batch of packets of the given kinds.
DecomBatch(ks) ==
    [i \in 1 .. Len(ks) |->
        [apid |-> ks[i].apid, seq_count |-> i - 1, user_data |-> ks[i].user_data]]

\* ============================================================ calibration
\* src/src/mdp/plugins/transformers/calibration.py
\* `unit: str | None = None`, `calibration_id: str | None = None`
NoUnit == "None"
NoCalibration == "None"

RECURSIVE Gcd(_, _)
Gcd(a, b) == IF b = 0 THEN a ELSE Gcd(b, a % b)

Abs(n) == IF n < 0 THEN -n ELSE n

\* A float: the number num/den (den > 0) in lowest terms.
FloatValue(num, den) ==
    LET g == Gcd(Abs(num), den)
    IN [kind |-> "float", n |-> num \div g, s |-> <<>>, d |-> den \div g]

\* The text is a non-empty run of ASCII decimal digits.
IsDigits(cs) == cs # <<>> /\ \A i \in 1 .. Len(cs) : cs[i] \in 48 .. 57

\* The number a run of decimal digits spells.
RECURSIVE Decimal(_)
Decimal(cs) ==
    IF cs = <<>> THEN 0
    ELSE 10 * Decimal(SubSeq(cs, 1, Len(cs) - 1)) + (cs[Len(cs)] - 48)

\* float(raw_value): the number of an int or a float (the raw values of a
\* batch that are numbers are ints), the number a str or bytes of decimal
\* digits spells, and ValueError for any other str or bytes.
ToFloat(v) ==
    IF v.kind = "int" THEN [ok |-> TRUE, err |-> "", num |-> v.n, den |-> 1]
    ELSE IF v.kind = "float"
    THEN [ok |-> TRUE, err |-> "", num |-> v.n, den |-> v.d]
    ELSE IF IsDigits(v.s)
    THEN [ok |-> TRUE, err |-> "", num |-> Decimal(v.s), den |-> 1]
    ELSE [ok |-> FALSE, err |-> "ValueError", num |-> 0, den |-> 1]

\* bisect.bisect_right(xs, x, lo, hi), lo and hi 0-based.
RECURSIVE BisectRight(_, _, _, _)
BisectRight(xs, x, lo, hi) ==
    IF lo >= hi THEN lo
    ELSE LET mid == (lo + hi) \div 2
         IN IF x < xs[mid + 1] THEN BisectRight(xs, x, lo, mid)
            ELSE BisectRight(xs, x, mid + 1, hi)

\* Mutant: outside the breakpoints the first and last segments are extended.
Interpolate_Extends(x, xs, ys) ==
    LET n == Len(xs)
        idx == IF x <= xs[1] THEN 0
               ELSE IF x >= xs[n] THEN n - 2
               ELSE BisectRight(xs, x, 0, n) - 1
        x0 == xs[idx + 1]
        x1 == xs[idx + 2]
        y0 == ys[idx + 1]
        y1 == ys[idx + 2]
    IN IF n < 2 \/ x1 = x0
       THEN [ok |-> TRUE, err |-> "", num |-> ys[1], den |-> 1]
       ELSE [ok |-> TRUE, err |-> "",
             num |-> y0 * (x1 - x0) + (x - x0) * (y1 - y0), den |-> x1 - x0]

\* _interpolate(x, xs, ys) for an integral x and integral breakpoints: the
\* result as the fraction num/den, or the exception raised.
Interpolate(x, xs, ys) ==
    IF xs = <<>> \/ ys = <<>>
    THEN [ok |-> FALSE, err |-> "IndexError", num |-> 0, den |-> 1]
    ELSE IF x <= xs[1] THEN [ok |-> TRUE, err |-> "", num |-> ys[1], den |-> 1]
    ELSE IF x >= xs[Len(xs)]
    THEN [ok |-> TRUE, err |-> "", num |-> ys[Len(ys)], den |-> 1]
    ELSE LET idx == BisectRight(xs, x, 0, Len(xs)) - 1
         IN IF idx + 2 > Len(ys)
            THEN [ok |-> FALSE, err |-> "IndexError", num |-> 0, den |-> 1]
            ELSE LET x0 == xs[idx + 1]
                     x1 == xs[idx + 2]
                     y0 == ys[idx + 1]
                     y1 == ys[idx + 2]
                 IN IF x1 = x0
                    THEN [ok |-> FALSE, err |-> "ZeroDivisionError",
                          num |-> 0, den |-> 1]
                    ELSE [ok |-> TRUE, err |-> "",
                          num |-> y0 * (x1 - x0) + (x - x0) * (y1 - y0),
                          den |-> x1 - x0]

\* raw ** power
RECURSIVE Power(_, _)
Power(raw, power) == IF power = 0 THEN 1 ELSE raw * Power(raw, power - 1)

\* `for power, coeff in enumerate(self.coefficients): result += ...`, from the
\* i-th coefficient on.
RECURSIVE Polynomial(_, _, _)
Polynomial(coefficients, raw, i) ==
    IF i > Len(coefficients) THEN 0
    ELSE coefficients[i] * Power(raw, i - 1) + Polynomial(coefficients, raw, i + 1)

\* CalibrationEntry.apply(raw) for an integral raw.
Apply(cal, raw) ==
    IF cal.method = "polynomial" /\ cal.coefficients # <<>>
    THEN [ok |-> TRUE, err |-> "",
          num |-> Polynomial(cal.coefficients, raw, 1), den |-> 1]
    ELSE IF cal.method = "table" /\ cal.table_raw # <<>> /\ cal.table_eng # <<>>
    THEN Interpolate(raw, cal.table_raw, cal.table_eng)
    ELSE [ok |-> TRUE, err |-> "", num |-> raw, den |-> 1]

\* No calibration entry (None).
NoEntry == [parameter_name |-> "", method |-> "identity", unit |-> NoUnit,
            coefficients |-> <<>>, table_raw |-> <<>>, table_eng |-> <<>>]

\* Mutant: the first entry of the configuration is used whatever its name.
CalFor_First(name) ==
    IF kcfg.calibrations = <<>> THEN NoEntry ELSE kcfg.calibrations[1]

\* CalibrationTransformer.setup and self._cal_map.get(name): the last entry of
\* the configuration with that name, NoEntry when there is none.
CalFor(name) ==
    LET hits == { i \in 1 .. Len(kcfg.calibrations) :
                    kcfg.calibrations[i].parameter_name = name }
    IN IF hits = {} THEN NoEntry
       ELSE kcfg.calibrations[CHOOSE i \in hits : \A j \in hits : j <= i]

\* Mutant: no exception of the conversion is caught.
Caught_None(err) == FALSE

\* `except (TypeError, ValueError):`
Caught(err) == err \in {"TypeError", "ValueError"}

\* `cal.unit or sample.unit`
CalibratedUnit(cal, unit) == IF cal.unit # NoUnit THEN cal.unit ELSE unit

\* Mutant: the sample is rebuilt with the default flags.
CalibratedSample_Defaults(sample, cal, eng) ==
    [sample EXCEPT !.eng_value = eng,
                   !.unit = CalibratedUnit(cal, sample.unit),
                   !.calibration_id = cal.method,
                   !.validity = TRUE, !.out_of_limit = FALSE,
                   !.alarm_level = 0]

\* The EngineeringParameter built for a sample whose raw value converted.
CalibratedSample(sample, cal, eng) ==
    [name |-> sample.name, apid |-> sample.apid,
     seq_count |-> sample.seq_count,
     sample_time_tai |-> sample.sample_time_tai,
     raw_value |-> sample.raw_value, eng_value |-> eng,
     unit |-> CalibratedUnit(cal, sample.unit),
     validity |-> sample.validity, calibration_id |-> cal.method,
     out_of_limit |-> sample.out_of_limit,
     alarm_level |-> sample.alarm_level]

\* Mutant: the engineering value is computed from the engineering value the
\* sample already has.
CalibrateOne_FromEng(sample, cal) ==
    LET raw == ToFloat(sample.eng_value)
        eng == IF raw.ok THEN Apply(cal, raw.num) ELSE raw
    IN IF raw.ok /\ eng.ok
       THEN [ok |-> TRUE, err |-> "",
             sample |-> CalibratedSample(sample, cal,
                                         FloatValue(eng.num, eng.den))]
       ELSE IF Caught(IF raw.ok THEN eng.err ELSE raw.err)
       THEN [ok |-> TRUE, err |-> "", sample |-> sample]
       ELSE [ok |-> FALSE, err |-> IF raw.ok THEN eng.err ELSE raw.err,
             sample |-> sample]

\* One iteration of `for sample in record.samples:`: the element appended to
\* `calibrated`, or the exception that leaves the loop.
CalibrateOne(sample, cal) ==
    LET raw == ToFloat(sample.raw_value)
        eng == IF raw.ok THEN Apply(cal, raw.num) ELSE raw
    IN IF raw.ok /\ eng.ok
       THEN [ok |-> TRUE, err |-> "",
             sample |-> CalibratedSample(sample, cal,
                                         FloatValue(eng.num, eng.den))]
       ELSE IF Caught(IF raw.ok THEN eng.err ELSE raw.err)
       THEN [ok |-> TRUE, err |-> "", sample |-> sample]
       ELSE [ok |-> FALSE, err |-> IF raw.ok THEN eng.err ELSE raw.err,
             sample |-> sample]

\* The loop over the samples of one record: the list `calibrated`, or the
\* failure of transform().
CalibrateSamples(samples, cal) ==
    LET each == [j \in 1 .. Len(samples) |-> CalibrateOne(samples[j], cal)]
    IN [ok |-> \A j \in 1 .. Len(samples) : each[j].ok,
        samples |-> [j \in 1 .. Len(samples) |-> each[j].sample]]

\* `if cal.unit: object.__setattr__(record, "unit", cal.unit)`
RecordUnit(cal, unit) == IF cal.unit # NoUnit THEN cal.unit ELSE unit

\* No batch has been handed to the calibration transformer.
CalIdle ==
    /\ kcfg = [calibrations |-> <<>>]
    /\ kparams = <<>>
    /\ kpackets = <<>>
    /\ kr = 0
    /\ kpc = "idle"
    /\ kpass = 0
    /\ kfirst = <<>>

\* transform(): one iteration of `for name, record in
\* dataset.parameters.items():`, or the return when the records are exhausted.
CalStep ==
    /\ kpc = "run"
    /\ IF kr = Len(kparams)
       THEN kpc' = "done" /\ UNCHANGED <<kr, kparams>>
       ELSE LET record == kparams[kr + 1]
                cal == CalFor(record.name)
            IN IF cal = NoEntry
               THEN kr' = kr + 1 /\ UNCHANGED <<kpc, kparams>>
               ELSE LET res == CalibrateSamples(record.samples, cal)
                    IN IF res.ok
                       THEN /\ kparams' =
                                 [kparams EXCEPT ![kr + 1] =
                                     [name |-> record.name,
                                      unit |-> RecordUnit(cal, record.unit),
                                      samples |-> res.samples]]
                            /\ kr' = kr + 1
                            /\ UNCHANGED kpc
                       ELSE kpc' = "raised" /\ UNCHANGED <<kr, kparams>>
    /\ UNCHANGED <<kcfg, kpackets, kpass, kfirst>>
    /\ UNCHANGED <<pvars, svars, cvars, dvars, ivars, mvars, hvars, tvars, lvars>>

\* transform() has returned the batch and is called on it a second time.
CalAgain ==
    /\ kpc = "done"
    /\ kpass = 1
    /\ kpass' = 2
    /\ kfirst' = kparams
    /\ kr' = 0
    /\ kpc' = "run"
    /\ UNCHANGED <<kcfg, kparams, kpackets>>
    /\ UNCHANGED <<pvars, svars, cvars, dvars, ivars, mvars, hvars, tvars, lvars>>

\* The entries a CalibrationConfig is made of.
CalEntrySamples ==
    { [parameter_name |-> "a", method |-> "polynomial", unit |-> "V",
       coefficients |-> <<-273, 2>>, table_raw |-> <<>>, table_eng |-> <<>>],
      [parameter_name |-> "a", method |-> "table", unit |-> NoUnit,
       coefficients |-> <<>>, table_raw |-> <<0, 100, 200>>,
       table_eng |-> <<0, 10, 20>>],
      [parameter_name |-> "b", method |-> "identity", unit |-> "degC",
       coefficients |-> <<>>, table_raw |-> <<>>, table_eng |-> <<>>] }

\* The samples a record is made of, but for name and sequence count: a raw
\* integer with the default flags, a raw integer flagged invalid and out of
\* limit, and an opaque binary payload.
CalSampleSamples ==
    { [raw_value |-> IntValue(50), validity |-> TRUE, out_of_limit |-> FALSE,
       alarm_level |-> 0],
      [raw_value |-> IntValue(300), validity |-> FALSE, out_of_limit |-> TRUE,
       alarm_level |-> 2],
      [raw_value |-> BytesValue(<<2, 171>>), validity |-> TRUE,
       out_of_limit |-> FALSE, alarm_level |-> 0] }

\* The record `name` of a decommutated batch with the given samples.
CalRecord(name, ts) ==
    [name |-> name, unit |-> "DN",
     samples |-> [j \in 1 .. Len(ts) |->
        [name |-> name, apid |-> 256, seq_count |-> j - 1,
         sample_time_tai |-> j - 1, raw_value |-> ts[j].raw_value,
         eng_value |-> EngOfRaw(ts[j].raw_value), unit |-> "DN",
         validity |-> ts[j].validity, calibration_id |-> NoCalibration,
         out_of_limit |-> ts[j].out_of_limit,
         alarm_level |-> ts[j].alarm_level]]]

\* The sample lists of a record.
CalSampleSeqs == UNION { [1 .. n -> CalSampleSamples] : n \in 1 .. MaxSamples }

\* dataset.parameters of the batches handed to the transformer: no record, one
\* record, or the records "a" and "b" in either insertion order.
CalDatasets ==
    {<<>>}
    \cup { <<CalRecord(nm, ts)>> : nm \in {"a", "b"}, ts \in CalSampleSeqs }
    \cup { <<CalRecord(nm[1], ts), CalRecord(nm[2], us)>> :
             nm \in {<<"a", "b">>, <<"b", "a">>},
             ts \in CalSampleSeqs, us \in CalSampleSeqs }

\* -------------------------------------------------- _interpolate, called alone
\* No call of _interpolate has been made.
InterpIdle ==
    /\ iin = [x |-> 0, xs |-> <<>>, ys |-> <<>>]
    /\ iout = [ok |-> FALSE, err |-> "", num |-> 0, den |-> 1]
    /\ ipc = "idle"

\* The breakpoint tables _interpolate is called with: xs ascending, ys of the
\* same length.
TableSamples ==
    { [xs |-> <<0, 100, 200>>, ys |-> <<0, 10, 20>>],
      [xs |-> <<0, 100, 100, 200>>, ys |-> <<5, 10, 30, 20>>],
      [xs |-> <<10, 13>>, ys |-> <<7, -3>>],
      [xs |-> <<40>>, ys |-> <<9>>] }

\* The raw values _interpolate is called with.
XSamples == (-10 .. MaxRaw) \cup {40, 50, 99, 100, 101, 150, 199, 200, 201, 300}

\* _interpolate(x, xs, ys) is called and returns or raises.
InterpolateCall ==
    /\ ipc = "call"
    /\ iout' = Interpolate(iin.x, iin.xs, iin.ys)
    /\ ipc' = "returned"
    /\ UNCHANGED iin
    /\ UNCHANGED <<pvars, svars, cvars, dvars, kvars, mvars, hvars, tvars, lvars>>

\* ================================================================== merge
\* src/src/mdp/models/dataset.py
\* `name in merged.parameters`
HasName(params, name) == \E i \in 1 .. Len(params) : params[i].name = name

\* `merged.parameters[name]`: the identity of the record stored under the name.
RecordAt(params, name) ==
    params[CHOOSE i \in 1 .. Len(params) : params[i].name = name].rec

\* One iteration of `for name, record in other.parameters.items():` on the
\* parameters of `merged` and the record objects.
MergeRecord(acc, entry) ==
    IF HasName(acc.params, entry.name)
    THEN LET existing == RecordAt(acc.params, entry.name)
         IN [params |-> acc.params,
             heap |-> [acc.heap EXCEPT ![existing].samples =
                          @ \o acc.heap[entry.rec].samples]]
    ELSE [params |-> Append(acc.params, entry), heap |-> acc.heap]

\* The loop over other.parameters, from its i-th item on.
RECURSIVE MergeRecords(_, _, _)
MergeRecords(acc, others, i) ==
    IF i > Len(others) THEN acc
    ELSE MergeRecords(MergeRecord(acc, others[i]), others, i + 1)

\* `{**self.metadata, **other.metadata}`
MergeMetadata(m1, m2) ==
    [k \in DOMAIN m1 \cup DOMAIN m2 |-> IF k \in DOMAIN m2 THEN m2[k] ELSE m1[k]]

\* self.merge(other): the dataset returned and the record objects afterwards.
Merge(self, other, heap) ==
    LET acc == MergeRecords([params |-> self.parameters, heap |-> heap],
                            other.parameters, 1)
    IN [dataset |-> [packets |-> self.packets \o other.packets,
                     metadata |-> MergeMetadata(self.metadata, other.metadata),
                     parameters |-> acc.params],
        heap |-> acc.heap]

\* No dataset has been built for merging.
MergeIdle ==
    /\ mheap = <<>>
    /\ mheap0 = <<>>
    /\ mdatasets = <<>>

\* `z = x.merge(y)` for datasets held by the variables x and y.
MergeCall(x, y, z) ==
    /\ {x, y} \subseteq DOMAIN mdatasets
    /\ z \notin DOMAIN mdatasets
    /\ LET r == Merge(mdatasets[x], mdatasets[y], mheap)
       IN /\ mdatasets' = (z :> r.dataset) @@ mdatasets
          /\ mheap' = r.heap
    /\ UNCHANGED mheap0
    /\ UNCHANGED <<pvars, svars, cvars, dvars, kvars, ivars, hvars, tvars, lvars>>

\* ab = a.merge(b)
MergeAB == MergeCall("a", "b", "ab")

\* left = ab.merge(c)
MergeLeft == MergeCall("ab", "c", "left")

\* bc = b.merge(c)
MergeBC == MergeCall("b", "c", "bc")

\* right = a.merge(bc)
MergeRight == MergeCall("a", "bc", "right")

\* The parameter names of the merged datasets.
MergeNames == {"x", "y"}

\* The orders in which a dataset got its records.
NameOrders == {<<>>, <<"x">>, <<"y">>, <<"x", "y">>, <<"y", "x">>}

\* The n samples the dataset `owner` holds for a name: each is told from every
\* other sample by its owner, name and sequence count.
OwnSamples(owner, name, n) ==
    [j \in 1 .. n |-> [name |-> name, owner |-> owner, seq_count |-> j - 1]]

\* A dataset built with add_packet and add_parameter.
MakeDataset(owner, order, npackets) ==
    [packets |-> [j \in 1 .. npackets |-> [owner |-> owner, seq_count |-> j - 1]],
     metadata |-> ("source" :> owner) @@ (owner :> TRUE),
     parameters |-> [i \in 1 .. Len(order) |->
                       [name |-> order[i], rec |-> <<owner, order[i]>>]]]

\* The record objects of a dataset built with add_parameter.
MakeRecords(owner, order, n) ==
    [id \in { <<owner, order[i]>> : i \in 1 .. Len(order) } |->
        [name |-> id[2], unit |-> "K", samples |-> OwnSamples(owner, id[2], n)]]

\* The arguments and the return value of a codec operation, before any call.
NoInput == [header |-> NoHeader, raw |-> <<>>, secondary_header |-> <<>>,
            user_data |-> <<>>, sec_hdr_length |-> 0]
NoOutput == [ok |-> FALSE, raw |-> <<>>, header |-> NoHeader,
             packet |-> NoPacket]

\* No codec operation has been called.
CodecIdle ==
    /\ cop = "none"
    /\ cin = NoInput
    /\ cout = NoOutput

\* The pipeline part at rest.
PipelineIdle ==
    /\ cfg = [stop_on_error |-> TRUE, max_batches |-> NoLimit, dry_run |-> FALSE,
              has_loader |-> FALSE, n_transformers |-> 0]
    /\ src = [n |-> 0, raises |-> FALSE]
    /\ pc = "idle"
    /\ runs = 0
    /\ metrics = [batches |-> 0, total_packets |-> 0]
    /\ pulled = 0
    /\ dataset = NoDataset
    /\ tIdx = 0
    /\ t_errors = <<>>
    /\ errors = <<>>
    /\ batches = 0
    /\ total_packets = 0
    /\ result = NoResult
    /\ lastCall = NoCall
    /\ nraised = 0
    /\ stageFailed = FALSE
    /\ nTransformCalls = 0
    /\ nLoadCalls = 0
    /\ packetsDone = 0

\* ================================================================ event hook

\* The callables that are registered as handlers.
Handlers == {"f", "g"}

\* How a call of a handler ends: it returns, it raises an exception derived
\* from Exception, or one derived from BaseException only (KeyboardInterrupt,
\* SystemExit).
HandlerOutcomes == {"returns", "Exception", "BaseException"}

\* contextlib.suppress(Exception) around the call of a handler.
Suppressed_Nothing(outcome) == outcome = "returns"
Suppressed(outcome) == outcome # "BaseException"

\* list.remove(handler) under contextlib.suppress(ValueError): the first
\* occurrence goes, and a handler that is not on the list leaves it as it is.
RECURSIVE RemoveFirst(_, _)
RemoveFirst(xs, h) ==
    IF xs = <<>> THEN <<>>
    ELSE IF Head(xs) = h THEN Tail(xs)
    ELSE <<Head(xs)>> \o RemoveFirst(Tail(xs), h)

\* The list the loop of fire runs over: the copy list(self._handlers) made when
\* fire was called.
FireList == hcall

\* EventHook.register(handler), also when called by a handler during a fire.
Register(h) ==
    /\ Len(hhandlers) < MaxRegistrations
    /\ hhandlers' = Append(hhandlers, h)
    /\ hgone' = hgone \ {h}
    /\ UNCHANGED <<hcall, hidx, hinvoked, hpc, hgone0>>
    /\ UNCHANGED <<pvars, svars, cvars, dvars, kvars, ivars, mvars, tvars, lvars>>

\* EventHook.unregister(handler), also when called by a handler during a fire.
Unregister(h) ==
    /\ hhandlers' = RemoveFirst(hhandlers, h)
    /\ hgone' = hgone \cup {h}
    /\ UNCHANGED <<hcall, hidx, hinvoked, hpc, hgone0>>
    /\ UNCHANGED <<pvars, svars, cvars, dvars, kvars, ivars, mvars, tvars, lvars>>

\* EventHook.fire is called: the list is copied.
FireCall ==
    /\ hpc # "firing"
    /\ hcall' = hhandlers
    /\ hidx' = 0
    /\ hinvoked' = <<>>
    /\ hpc' = "firing"
    /\ hgone0' = hgone
    /\ UNCHANGED <<hhandlers, hgone>>
    /\ UNCHANGED <<pvars, svars, cvars, dvars, kvars, ivars, mvars, tvars, lvars>>

\* One turn of the loop of fire: the next handler is called and ends in some
\* way; after the last one, fire returns.
FireStep ==
    /\ hpc = "firing"
    /\ IF hidx < Len(FireList)
       THEN \E o \in HandlerOutcomes :
               /\ hinvoked' = Append(hinvoked, [handler |-> FireList[hidx + 1],
                                                outcome |-> o])
               /\ hidx' = hidx + 1
               /\ hpc' = IF Suppressed(o) THEN "firing" ELSE "raised"
       ELSE /\ hpc' = "returned"
            /\ UNCHANGED <<hidx, hinvoked>>
    /\ UNCHANGED <<hhandlers, hcall, hgone, hgone0>>
    /\ UNCHANGED <<pvars, svars, cvars, dvars, kvars, ivars, mvars, tvars, lvars>>

\* EventHook.__init__: no handler.
HookIdle ==
    /\ hhandlers = <<>>
    /\ hcall = <<>>
    /\ hidx = 0
    /\ hinvoked = <<>>
    /\ hpc = "idle"
    /\ hgone = {}
    /\ hgone0 = {}

\* ========================================================== PipelineMetrics

\* The stage names the threads record under.
StageNames == {"decom", "loader"}

\* The arguments of the calls the threads make: record_batch(packet_count) and
\* record_stage(stage_name, records_in, records_out, elapsed_s, error), the
\* elapsed time in whole ticks.
NoMetricCall == [op |-> "none", stage_name |-> "", packet_count |-> 0,
                 records_in |-> 0, records_out |-> 0, elapsed_s |-> 0,
                 error |-> FALSE]
MetricCalls ==
    { [NoMetricCall EXCEPT !.op = "record_batch", !.packet_count = n] :
         n \in {1, 2} }
    \cup { [NoMetricCall EXCEPT !.op = "record_stage", !.stage_name = s,
                                !.records_in = 2, !.records_out = 2,
                                !.elapsed_s = 1] : s \in StageNames }
    \cup { [NoMetricCall EXCEPT !.op = "record_stage", !.stage_name = s,
                                !.records_in = 2, !.elapsed_s = 1,
                                !.error = TRUE] : s \in StageNames }

\* StageMetric(name=stage_name): every counter at its default.
NewStageMetric == [invocations |-> 0, records_in |-> 0, records_out |-> 0,
                   errors |-> 0, total_elapsed_s |-> 0]

\* The `+=` statements in the body of a call, in the order of the code: the
\* attribute and what is added to it.
Increments(call) ==
    IF call.op = "record_batch"
    THEN << <<"batches", 1>>, <<"total_packets", call.packet_count>> >>
    ELSE << <<"invocations", 1>>, <<"records_in", call.records_in>>,
            <<"records_out", call.records_out>>,
            <<"total_elapsed_s", call.elapsed_s>> >>
         \o (IF call.error THEN << <<"errors", 1>> >> ELSE <<>>)

\* Lock.acquire() of `with self._lock:` goes through when no thread holds the
\* lock, and blocks otherwise.
LockFree_NoLock == TRUE
LockFree == pmlock = 0

\* A thread that is in no call.
IdleThread == [pc |-> "idle", call |-> NoMetricCall, i |-> 0, reg |-> 0]

\* Thread t calls record_batch or record_stage with the arguments c.
MetricsCall(t, c) ==
    /\ thr[t].pc = "idle"
    /\ pmcalls < MaxMetricCalls
    /\ thr' = [thr EXCEPT ![t] = [pc |-> "lock", call |-> c, i |-> 0, reg |-> 0]]
    /\ pmcalls' = pmcalls + 1
    /\ pmdone' = [pmdone EXCEPT !.overlapped = @ \/ pmlock # 0]
    /\ UNCHANGED <<pmlock, pmcount, pmstages>>
    /\ UNCHANGED <<pvars, svars, cvars, dvars, kvars, ivars, mvars, hvars, lvars>>

\* `with self._lock:` is entered.
Acquire(t) ==
    /\ thr[t].pc = "lock"
    /\ LockFree
    /\ pmlock' = t
    /\ thr' = [thr EXCEPT ![t].pc = IF thr[t].call.op = "record_stage"
                                    THEN "ensure" ELSE "read",
                          ![t].i = 1]
    /\ UNCHANGED <<pmcount, pmstages, pmdone, pmcalls>>
    /\ UNCHANGED <<pvars, svars, cvars, dvars, kvars, ivars, mvars, hvars, lvars>>

\* record_stage: `if stage_name not in self._stages:` a new StageMetric is
\* stored under the name.
EnsureStage(t) ==
    /\ thr[t].pc = "ensure"
    /\ pmstages' = IF thr[t].call.stage_name \in DOMAIN pmstages
                   THEN pmstages
                   ELSE pmstages @@ (thr[t].call.stage_name :> NewStageMetric)
    /\ thr' = [thr EXCEPT ![t].pc = "read"]
    /\ UNCHANGED <<pmlock, pmcount, pmdone, pmcalls>>
    /\ UNCHANGED <<pvars, svars, cvars, dvars, kvars, ivars, mvars, hvars, lvars>>

\* The first half of `x += v`: the attribute is read.
ReadAttr(t) ==
    /\ thr[t].pc = "read"
    /\ LET c == thr[t].call
           a == Increments(c)[thr[t].i][1]
       IN thr' = [thr EXCEPT ![t].pc = "write",
                             ![t].reg = IF c.op = "record_batch"
                                        THEN pmcount[a]
                                        ELSE pmstages[c.stage_name][a]]
    /\ UNCHANGED <<pmlock, pmcount, pmstages, pmdone, pmcalls>>
    /\ UNCHANGED <<pvars, svars, cvars, dvars, kvars, ivars, mvars, hvars, lvars>>

\* The second half of `x += v`: the sum is stored.
WriteAttr(t) ==
    /\ thr[t].pc = "write"
    /\ LET c == thr[t].call
           incs == Increments(c)
           a == incs[thr[t].i][1]
           v == thr[t].reg + incs[thr[t].i][2]
       IN /\ IF c.op = "record_batch"
             THEN /\ pmcount' = [pmcount EXCEPT ![a] = v]
                  /\ UNCHANGED pmstages
             ELSE /\ pmstages' = [pmstages EXCEPT ![c.stage_name][a] = v]
                  /\ UNCHANGED pmcount
          /\ thr' = [thr EXCEPT ![t].pc = IF thr[t].i = Len(incs)
                                          THEN "unlock" ELSE "read",
                                ![t].i = @ + 1]
    /\ UNCHANGED <<pmlock, pmdone, pmcalls>>
    /\ UNCHANGED <<pvars, svars, cvars, dvars, kvars, ivars, mvars, hvars, lvars>>

\* The sums over the calls that have returned, with one more call.
SumWith(done, c) ==
    IF c.op = "record_batch"
    THEN [done EXCEPT !.batches = @ + 1, !.total_packets = @ + c.packet_count]
    ELSE LET old == IF c.stage_name \in DOMAIN done.stages
                    THEN done.stages[c.stage_name] ELSE NewStageMetric
             new == [invocations |-> old.invocations + 1,
                     records_in |-> old.records_in + c.records_in,
                     records_out |-> old.records_out + c.records_out,
                     errors |-> old.errors + (IF c.error THEN 1 ELSE 0),
                     total_elapsed_s |-> old.total_elapsed_s + c.elapsed_s]
         IN [done EXCEPT !.stages =
                [s \in DOMAIN done.stages \cup {c.stage_name} |->
                    IF s = c.stage_name THEN new ELSE done.stages[s]]]

\* `with self._lock:` is left and the call returns.
Release(t) ==
    /\ thr[t].pc = "unlock"
    /\ pmlock' = 0
    /\ pmdone' = SumWith(pmdone, thr[t].call)
    /\ thr' = [thr EXCEPT ![t] = IdleThread]
    /\ UNCHANGED <<pmcount, pmstages, pmcalls>>
    /\ UNCHANGED <<pvars, svars, cvars, dvars, kvars, ivars, mvars, hvars, lvars>>

\* PipelineMetrics.__init__, and nothing recorded.
NoSums == [batches |-> 0, total_packets |-> 0, stages |-> <<>>,
           overlapped |-> FALSE]

\* No thread records anything.
MetricsIdle ==
    /\ pmlock = 0
    /\ pmcount = [batches |-> 0, total_packets |-> 0]
    /\ pmstages = <<>>
    /\ thr = <<>>
    /\ pmdone = NoSums
    /\ pmcalls = 0

\* ================================================================== loaders

\* The parameter names of the batches, and the sample times of a record.
ParamNames == {"temperature", "voltage"}
SampleTimes == {0, 10}

\* The samples a record of a batch may hold, in insertion order: their times,
\* all different; <<>> stands for a batch without the parameter.
SampleSeqs ==
    {<<>>} \cup { <<t>> : t \in SampleTimes }
    \cup { s \in SampleTimes \X SampleTimes : s[1] # s[2] }

\* The columns of the frame to_dataframe builds (of its nine, the two that
\* tell the rows of a batch apart).
Columns == <<"time_tai", "seq_count">>

\* sort_values("time_tai") on rows whose times are all different.
RECURSIVE SortByTime(_)
SortByTime(rows) ==
    IF rows = {} THEN <<>>
    ELSE LET first == CHOOSE r \in rows : \A q \in rows : r.time_tai <= q.time_tai
         IN <<first>> \o SortByTime(rows \ {first})

\* TelemetryDataset.to_dataframe(name): one row per sample, by time.
ToDataframe(samples) ==
    SortByTime({ [time_tai |-> samples[i], seq_count |-> i] :
                    i \in 1 .. Len(samples) })

\* A path under output_dir at which nothing exists. A file that exists has
\* lines (the text lines of a CSV file, the rows of a Parquet table) and, as a
\* Parquet file, a schema.
NoFile == [exists |-> FALSE, schema |-> <<>>, lines |-> <<>>]

\* CsvLoader._write_per_parameter: the mode the file is opened in, and
\* whether the column names are written.
CsvMode(overwrite, exists) == IF overwrite \/ ~exists THEN "w" ELSE "a"
CsvHeader_Always(mode) == TRUE
CsvHeader(mode) == mode = "w"

\* The text line to_csv writes for a row.
CsvLine(row) == <<ToString(row.time_tai), ToString(row.seq_count)>>

\* DataFrame.to_csv(path, mode=, header=, index=False): the file afterwards.
\* Mode "w" truncates, mode "a" writes at the end.
ToCsv(file, df, mode, header) ==
    [exists |-> TRUE,
     schema |-> <<>>,
     lines |-> (IF mode = "w" THEN <<>> ELSE file.lines)
               \o (IF header THEN <<Columns>> ELSE <<>>)
               \o [j \in 1 .. Len(df) |-> CsvLine(df[j])]]

\* ParquetLoader._write_df: the file afterwards.
WriteDf(file, df, overwrite) ==
    LET table == [schema |-> Columns, rows |-> df]
        whole == IF file.exists /\ ~overwrite
                 THEN [schema |-> file.schema, rows |-> file.lines \o table.rows]
                 ELSE table
    IN [exists |-> TRUE, schema |-> whole.schema, lines |-> whole.rows]

\* The file of one parameter after _write_per_parameter has come to it.
WriteParameter(file, samples) ==
    LET df == ToDataframe(samples)
    IN IF df = <<>> THEN file
       ELSE IF lcfg.kind = "csv"
       THEN LET mode == CsvMode(lcfg.overwrite, file.exists)
            IN ToCsv(file, df, mode, CsvHeader(mode))
       ELSE WriteDf(file, df, lcfg.overwrite)

\* Loader._timed_load(d) with wide_format and partition_by_apid off: setup()
\* makes output_dir if need be, load() writes every parameter of the batch.
LoaderLoad(d) ==
    /\ Len(lloaded) < MaxLoads
    /\ lfiles' = [p \in ParamNames |-> WriteParameter(lfiles[p], d[p])]
    /\ lloaded' = Append(lloaded, d)
    /\ UNCHANGED lcfg
    /\ UNCHANGED <<pvars, svars, cvars, dvars, kvars, ivars, mvars, hvars, tvars>>

\* No loader has been made.
LoaderIdle ==
    /\ lcfg = [kind |-> "csv", overwrite |-> TRUE]
    /\ lfiles = <<>>
    /\ lloaded = <<>>

\* The scanner part at rest.
ScannerIdle ==
    /\ scfg = [batch_size |-> 1, filter_set |-> FALSE, apid_filter |-> {},
               sec_hdr_length |-> 0, frame_sync |-> FALSE]
    /\ buf = <<>>
    /\ bkinds = <<>>
    /\ bprefix = <<>>
    /\ btail = <<>>
    /\ spc = "end"
    /\ pos = 0
    /\ sdataset = <<>>
    /\ count = 0
    /\ yielded = <<>>
    /\ spans = <<>>

\* _parse_buffer is entered on a buffer of packets, under any configuration.
InitScan ==
    /\ HookIdle
    /\ MetricsIdle
    /\ LoaderIdle
    /\ MergeIdle
    /\ CalIdle
    /\ InterpIdle
    /\ PipelineIdle
    /\ CodecIdle
    /\ DecomIdle
    /\ scfg \in [batch_size : 1 .. MaxBatchSize,
                 filter_set : BOOLEAN,
                 apid_filter : {{}, {256}},
                 sec_hdr_length : 0 .. 1,
                 frame_sync : BOOLEAN]
    /\ (~scfg.filter_set => scfg.apid_filter = {})
    /\ \E ks \in KindSeqs, pre \in Prefixes :
          \E tl \in Tails(pre) :
             /\ buf = BuildBuffer(ks, pre, 1) \o tl
             /\ bkinds = ks
             /\ bprefix = pre
             /\ btail = tl
    /\ spc = "scan"
    /\ pos = 0
    /\ sdataset = <<>>
    /\ count = 0
    /\ yielded = <<>>
    /\ spans = <<>>

NextScan == ScanStep

SpecScan == InitScan /\ [][NextScan]_vars

\* The generator is run to exhaustion by its consumer (`for dataset in
\* self.extractor.extract()`), so an iteration that can be taken is taken: weak
\* fairness of ScanStep. ScanStep is enabled exactly when spc = "scan", so
\* WF_vars(ScanStep) is written with that guard in place of ENABLED.
ScanFairness == []<>(spc # "scan") \/ []<><<ScanStep>>_vars

\* The pieces of an arbitrary buffer: the first byte of the sync marker alone,
\* the sync marker alone, a packet with APID 0x100 bare and after a sync
\* marker, and a packet with APID 0x200 and a secondary header after a sync
\* marker.
Chunks ==
    { <<SYNC_MARKER[1]>>, SYNC_MARKER,
      MakeRawPacket(256, 0, 0, <<7>>),
      SYNC_MARKER \o MakeRawPacket(256, 0, 0, <<7>>),
      SYNC_MARKER \o MakeRawPacket(512, 1, 1, <<1, 2>>) }

ChunkSeqs == UNION { [1 .. n -> Chunks] : n \in 0 .. MaxChunks }

\* b.join(cs)
RECURSIVE Join(_)
Join(cs) == IF cs = <<>> THEN <<>> ELSE Head(cs) \o Join(Tail(cs))

\* _parse_buffer is entered on a buffer put together from such pieces in any
\* order, under any configuration.
InitScanFair ==
    /\ HookIdle
    /\ MetricsIdle
    /\ LoaderIdle
    /\ MergeIdle
    /\ CalIdle
    /\ InterpIdle
    /\ PipelineIdle
    /\ CodecIdle
    /\ DecomIdle
    /\ scfg \in [batch_size : 1 .. MaxBatchSize,
                 filter_set : BOOLEAN,
                 apid_filter : {{}, {256}},
                 sec_hdr_length : 0 .. 1,
                 frame_sync : BOOLEAN]
    /\ (~scfg.filter_set => scfg.apid_filter = {})
    /\ \E cs \in ChunkSeqs :
          /\ buf = Join(cs)
          /\ btail = Join(cs)
    /\ bkinds = <<>>
    /\ bprefix = <<>>
    /\ spc = "scan"
    /\ pos = 0
    /\ sdataset = <<>>
    /\ count = 0
    /\ yielded = <<>>
    /\ spans = <<>>

SpecScanFair == InitScanFair /\ [][NextScan]_vars /\ ScanFairness

\* ================================================================== codec
\* Headers handed to the codec: every field at its ends and across a byte
\* boundary.
HeaderSamples ==
    [version : {0, 7}, type_flag : 0 .. 1, sec_hdr_flag : 0 .. 1,
     apid : {0, 256, 2047}, seq_flags : 0 .. 3,
     seq_count : {0, 255, 256, 16383}, data_length : {0, 255, 256, 65535}]

\* Byte values raw input is made of.
ByteSamples == {0, 26, 255}

\* Raw byte strings handed to CCSDSPrimaryHeader.from_bytes: too short, or 6
\* bytes.
RawSamples == UNION { [1 .. n -> ByteSamples] : n \in {0, 5, 6} }

\* n bytes base + 1, base + 2, ...: told apart by position.
Bytes(base, n) == [i \in 1 .. n |-> base + i]

\* The header of a packet with the given flag and data_length.
PacketHeader(flag, dlen) ==
    [version |-> 0, type_flag |-> 0, sec_hdr_flag |-> flag, apid |-> 256,
     seq_flags |-> 3, seq_count |-> 5, data_length |-> dlen]

\* header.to_bytes()
EncodeHeader ==
    /\ cop = "none"
    /\ \E h \in HeaderSamples :
          /\ cin' = [NoInput EXCEPT !.header = h]
          /\ cout' = [NoOutput EXCEPT !.ok = TRUE, !.raw = ToBytes(h)]
    /\ cop' = "encode"
    /\ UNCHANGED <<pvars, svars, dvars, kvars, ivars, mvars, hvars, tvars, lvars>>

\* CCSDSPrimaryHeader.from_bytes(raw) on the bytes to_bytes returned.
DecodeEncoded ==
    /\ cop = "encode"
    /\ LET r == HeaderFromBytes(cout.raw) IN
          /\ cin' = [cin EXCEPT !.raw = cout.raw]
          /\ cout' = [NoOutput EXCEPT !.ok = r.ok, !.header = r.header]
    /\ cop' = "roundtrip"
    /\ UNCHANGED <<pvars, svars, dvars, kvars, ivars, mvars, hvars, tvars, lvars>>

\* CCSDSPrimaryHeader.from_bytes(raw) on any bytes.
DecodeRaw ==
    /\ cop = "none"
    /\ \E raw \in RawSamples :
          LET r == HeaderFromBytes(raw) IN
          /\ cin' = [NoInput EXCEPT !.raw = raw]
          /\ cout' = [NoOutput EXCEPT !.ok = r.ok, !.header = r.header]
    /\ cop' = "decode"
    /\ UNCHANGED <<pvars, svars, dvars, kvars, ivars, mvars, hvars, tvars, lvars>>

\* TelemetryPacket(header=h, secondary_header=sh, user_data=ud)
ConstructPacket ==
    /\ cop = "none"
    /\ \E flag \in 0 .. 1, dlen \in 0 .. MaxDataLen,
          ns \in 0 .. MaxSecHdrLen, nu \in 0 .. MaxDataLen + 2 :
          LET h == PacketHeader(flag, dlen)
              sh == Bytes(20, ns)
              ud == Bytes(30, nu)
              r == NewPacket(h, sh, ud)
          IN /\ cin' = [NoInput EXCEPT !.header = h, !.secondary_header = sh,
                                        !.user_data = ud]
             /\ cout' = [NoOutput EXCEPT !.ok = r.ok, !.packet = r.packet]
    /\ cop' = "construct"
    /\ UNCHANGED <<pvars, svars, dvars, kvars, ivars, mvars, hvars, tvars, lvars>>

\* TelemetryPacket.from_bytes(raw, sec_hdr_length): raw is nh bytes of a header
\* followed by nd bytes.
ParsePacket ==
    /\ cop = "none"
    /\ \E flag \in 0 .. 1, dlen \in 0 .. MaxDataLen, nh \in {4, 6},
          nd \in 0 .. MaxDataLen + 2, shl \in 0 .. MaxSecHdrLen :
          LET h == PacketHeader(flag, dlen)
              raw == SubSeq(ToBytes(h), 1, nh) \o Bytes(40, nd)
              r == PacketFromBytes(raw, shl)
          IN /\ cin' = [NoInput EXCEPT !.header = h, !.raw = raw,
                                        !.sec_hdr_length = shl]
             /\ cout' = [NoOutput EXCEPT !.ok = r.ok, !.packet = r.packet]
    /\ cop' = "parse"
    /\ UNCHANGED <<pvars, svars, dvars, kvars, ivars, mvars, hvars, tvars, lvars>>

InitCodec ==
    /\ HookIdle
    /\ MetricsIdle
    /\ LoaderIdle
    /\ MergeIdle
    /\ CalIdle
    /\ InterpIdle
    /\ PipelineIdle
    /\ ScannerIdle
    /\ CodecIdle
    /\ DecomIdle

NextCodec ==
    \/ EncodeHeader
    \/ DecodeEncoded
    \/ DecodeRaw
    \/ ConstructPacket
    \/ ParsePacket

SpecCodec == InitCodec /\ [][NextCodec]_vars

\* transform() is entered, after setup(), on a batch with no parameters yet.
InitDecom ==
    /\ HookIdle
    /\ MetricsIdle
    /\ LoaderIdle
    /\ MergeIdle
    /\ CalIdle
    /\ InterpIdle
    /\ PipelineIdle
    /\ ScannerIdle
    /\ CodecIdle
    /\ dcfg \in [parameters : UNION { [1 .. n -> DefSamples] : n \in 0 .. MaxDefs },
                 skip_unknown_apids : BOOLEAN]
    /\ \E ks \in UNION { [1 .. n -> DecomPacketSamples] : n \in 0 .. MaxDecomPackets } :
          dpackets = DecomBatch(ks)
    /\ dparams = <<>>
    /\ dk = 0
    /\ dpc = "run"
    /\ dstage = NoStage

NextDecom == DecomStep

SpecDecom == InitDecom /\ [][NextDecom]_vars

NextDecomStage == DecomStep \/ DecomReturn

\* The transformer is run by the pipeline as one of its stages.
SpecDecomStage == InitDecom /\ [][NextDecomStage]_vars

\* transform() is entered, after setup(), on a decommutated batch.
InitCal ==
    /\ HookIdle
    /\ MetricsIdle
    /\ LoaderIdle
    /\ MergeIdle
    /\ PipelineIdle
    /\ ScannerIdle
    /\ CodecIdle
    /\ DecomIdle
    /\ InterpIdle
    /\ kcfg \in [calibrations :
                   UNION { [1 .. n -> CalEntrySamples] : n \in 0 .. MaxCals }]
    /\ kparams \in CalDatasets
    /\ kpackets \in {<<>>, DecomBatch(<<[apid |-> 256, user_data |-> <<1, 2>>]>>)}
    /\ kr = 0
    /\ kpc = "run"
    /\ kpass = 1
    /\ kfirst = <<>>

NextCal == CalStep

SpecCal == InitCal /\ [][NextCal]_vars

NextCalTwice == CalStep \/ CalAgain

\* The transformer is applied to the batch, and to its result once more.
SpecCalTwice == InitCal /\ [][NextCalTwice]_vars

\* _interpolate is about to be called on a table and a raw value.
InitInterp ==
    /\ HookIdle
    /\ MetricsIdle
    /\ LoaderIdle
    /\ MergeIdle
    /\ PipelineIdle
    /\ ScannerIdle
    /\ CodecIdle
    /\ DecomIdle
    /\ CalIdle
    /\ \E t \in TableSamples, x \in XSamples :
          iin = [x |-> x, xs |-> t.xs, ys |-> t.ys]
    /\ iout = [ok |-> FALSE, err |-> "", num |-> 0, den |-> 1]
    /\ ipc = "call"

NextInterp == InterpolateCall

SpecInterp == InitInterp /\ [][NextInterp]_vars

\* Three datasets a, b, c have been built, with disjoint or overlapping
\* parameter names, each record an object of its own.
InitMerge ==
    /\ HookIdle
    /\ MetricsIdle
    /\ LoaderIdle
    /\ PipelineIdle
    /\ ScannerIdle
    /\ CodecIdle
    /\ DecomIdle
    /\ CalIdle
    /\ InterpIdle
    /\ \E oa, ob, oc \in NameOrders, na, nb, nc \in 1 .. MaxMergeSamples :
          /\ mdatasets = ("a" :> MakeDataset("a", oa, 1))
                         @@ ("b" :> MakeDataset("b", ob, 0))
                         @@ ("c" :> MakeDataset("c", oc, 2))
          /\ mheap = MakeRecords("a", oa, na) @@ MakeRecords("b", ob, nb)
                     @@ MakeRecords("c", oc, nc)
    /\ mheap0 = mheap

NextMerge ==
    \/ MergeAB
    \/ MergeLeft
    \/ MergeBC
    \/ MergeRight

SpecMerge == InitMerge /\ [][NextMerge]_vars

\* ================================================================ event hook

\* A new EventHook.
InitHook ==
    /\ PipelineIdle
    /\ ScannerIdle
    /\ CodecIdle
    /\ DecomIdle
    /\ CalIdle
    /\ InterpIdle
    /\ MergeIdle
    /\ MetricsIdle
    /\ LoaderIdle
    /\ HookIdle

NextHook ==
    \/ \E h \in Handlers : Register(h)
    \/ \E h \in Handlers : Unregister(h)
    \/ FireCall
    \/ FireStep

SpecHook == InitHook /\ [][NextHook]_vars

\* ========================================================== PipelineMetrics

\* A new PipelineMetrics shared by the threads 1 .. MaxThreads.
InitMetrics ==
    /\ PipelineIdle
    /\ ScannerIdle
    /\ CodecIdle
    /\ DecomIdle
    /\ CalIdle
    /\ InterpIdle
    /\ MergeIdle
    /\ HookIdle
    /\ LoaderIdle
    /\ pmlock = 0
    /\ pmcount = [batches |-> 0, total_packets |-> 0]
    /\ pmstages = <<>>
    /\ thr = [t \in 1 .. MaxThreads |-> IdleThread]
    /\ pmdone = NoSums
    /\ pmcalls = 0

NextMetrics ==
    \E t \in 1 .. MaxThreads :
       \/ \E c \in MetricCalls : MetricsCall(t, c)
       \/ Acquire(t)
       \/ EnsureStage(t)
       \/ ReadAttr(t)
       \/ WriteAttr(t)
       \/ Release(t)

SpecMetrics == InitMetrics /\ [][NextMetrics]_vars

\* ================================================================== loaders

\* A CsvLoader or ParquetLoader on an output directory that holds no file yet.
InitLoader ==
    /\ PipelineIdle
    /\ ScannerIdle
    /\ CodecIdle
    /\ DecomIdle
    /\ CalIdle
    /\ InterpIdle
    /\ MergeIdle
    /\ HookIdle
    /\ MetricsIdle
    /\ lcfg \in [kind : {"csv", "parquet"}, overwrite : BOOLEAN]
    /\ lfiles = [p \in ParamNames |-> NoFile]
    /\ lloaded = <<>>

NextLoader == \E d \in [ParamNames -> SampleSeqs] : LoaderLoad(d)

SpecLoader == InitLoader /\ [][NextLoader]_vars

\* ================================================================ pipeline

\* Pipeline.__init__: any configuration, any stages, any finite source.
Init ==
    /\ HookIdle
    /\ MetricsIdle
    /\ LoaderIdle
    /\ MergeIdle
    /\ CalIdle
    /\ InterpIdle
    /\ ScannerIdle
    /\ CodecIdle
    /\ DecomIdle
    /\ cfg \in [stop_on_error : BOOLEAN,
                max_batches : {NoLimit} \cup (0 .. MaxAvail),
                dry_run : BOOLEAN,
                has_loader : BOOLEAN,
                n_transformers : 0 .. MaxTransformers]
    /\ src \in [n : 0 .. MaxAvail, raises : BOOLEAN]
    /\ pc = "idle"
    /\ runs = 0
    /\ metrics = [batches |-> 0, total_packets |-> 0]
    /\ pulled = 0
    /\ dataset = NoDataset
    /\ tIdx = 0
    /\ t_errors = <<>>
    /\ errors = <<>>
    /\ batches = 0
    /\ total_packets = 0
    /\ result = NoResult
    /\ lastCall = NoCall
    /\ nraised = 0
    /\ stageFailed = FALSE
    /\ nTransformCalls = 0
    /\ nLoadCalls = 0
    /\ packetsDone = 0

Next ==
    \/ StartRun
    \/ AddTransformer
    \/ ExtractNext
    \/ TransformStep
    \/ LoadStep

Spec == Init /\ [][Next]_vars


\* ================================================================ properties
\* A step in which a call is made on a stage (extractor, transformer or loader).
CallStep == lastCall' # lastCall /\ lastCall'.op # "none"

\* ---------------------------------------------------------------------- C1
\* C1: with stop_on_error=true, once a transformer or loader call has failed the
\* run is over: that failing call is the last call made on any stage (no other
\* transformer of the batch, no loader call after a failed transformer, no
\* further request to the extractor), its exception is in the returned error
\* list, and the returned status is FAILED.
C1_StopOnFirstFailure ==
    (cfg.stop_on_error /\ stageFailed) =>
        /\ pc = "done"
        /\ lastCall.op \in {"transform", "load"}
        /\ lastCall.status = "FAILED"
        /\ nraised = 1
        /\ result.errors = <<Exc(1)>>
        /\ result.status = "FAILED"
        /\ nTransformCalls =
              (pulled - 1) * cfg.n_transformers
              + (IF lastCall.op = "transform" THEN lastCall.idx
                 ELSE cfg.n_transformers)
        /\ nLoadCalls =
              (IF cfg.has_loader /\ ~cfg.dry_run
               THEN (pulled - 1) + (IF lastCall.op = "load" THEN 1 ELSE 0)
               ELSE 0)

\* A first transformer failed while a second transformer, a loader and a further
\* batch were still to come.
C1_Witness ==
    /\ cfg.stop_on_error /\ stageFailed /\ pc = "done"
    /\ lastCall.op = "transform" /\ lastCall.idx < cfg.n_transformers
    /\ cfg.has_loader /\ ~cfg.dry_run
    /\ pulled < src.n

\* ---------------------------------------------------------------------- C2
\* C2: with stop_on_error=false no transformer or loader failure ends the run:
\* at the end every batch the extractor yielded has been through every
\* configured transformer and (with a loader, outside dry-run) through the
\* loader, every yielded batch is counted, each failing call has added exactly
\* one error, and the run ended only because the extractor stopped or raised or
\* the batch limit was reached.
C2_ContinueOnError ==
    (~cfg.stop_on_error /\ pc = "done") =>
        /\ nTransformCalls = pulled * cfg.n_transformers
        /\ nLoadCalls = (IF cfg.has_loader /\ ~cfg.dry_run THEN pulled ELSE 0)
        /\ result.batches_processed = pulled
        /\ Len(result.errors) = nraised
        /\ \/ lastCall.op = "extract" /\ lastCall.status \in {"stop", "raised"}
           \/ /\ cfg.max_batches >= 1
              /\ result.batches_processed = cfg.max_batches

\* One transformer that failed on every batch: all batches processed, one error
\* per batch, the loader called for each.
C2_Witness ==
    /\ ~cfg.stop_on_error /\ pc = "done"
    /\ cfg.n_transformers = 1 /\ cfg.has_loader /\ ~cfg.dry_run
    /\ src.n = MaxAvail /\ ~src.raises /\ cfg.max_batches = NoLimit
    /\ result.batches_processed = MaxAvail
    /\ Len(result.errors) = MaxAvail
    /\ nLoadCalls = MaxAvail

\* ---------------------------------------------------------------------- C3
\* C3: a run returns with status SUCCESS or FAILED and nothing else, FAILED
\* exactly when the returned error list is non-empty; no result exists before
\* the run has ended.
C3_TerminalStatus ==
    /\ pc = "done" =>
          /\ result.status \in {"SUCCESS", "FAILED"}
          /\ (result.status = "FAILED") <=> (result.errors # <<>>)
          /\ result.errors = errors
    /\ pc \in {"extract", "transform", "load"} => result = NoResult

\* A run that processed a batch and returned FAILED with an error.
C3_Witness ==
    /\ pc = "done" /\ result.status = "FAILED" /\ result.errors # <<>>
    /\ result.batches_processed >= 1

\* ---------------------------------------------------------------------- C4
\* C4 as stated: with a batch limit M configured and an extractor that can
\* yield more than M batches, the run ends after exactly M batches (nothing
\* extracted beyond them) with status SUCCESS.
C4_Original ==
    (pc = "done" /\ cfg.max_batches >= 1 /\ src.n > cfg.max_batches) =>
        /\ result.batches_processed = cfg.max_batches
        /\ pulled = cfg.max_batches
        /\ result.status = "SUCCESS"

\* C4 amended: with a batch limit M >= 1 and an extractor that can yield more
\* than M batches, unless a stage failure aborts the run under stop_on_error,
\* the run ends after exactly M batches: M batches extracted, each through all
\* transformers and (if enabled) the loader, the last call made being on batch
\* M - 1; the status is SUCCESS exactly when no stage call failed.
C4_MaxBatches ==
    (/\ pc = "done" /\ cfg.max_batches >= 1 /\ src.n > cfg.max_batches
     /\ ~(cfg.stop_on_error /\ stageFailed)) =>
        /\ result.batches_processed = cfg.max_batches
        /\ pulled = cfg.max_batches
        /\ lastCall.batch = cfg.max_batches - 1
        /\ lastCall.status \notin {"stop", "raised"}
        /\ nTransformCalls = cfg.max_batches * cfg.n_transformers
        /\ nLoadCalls =
              (IF cfg.has_loader /\ ~cfg.dry_run THEN cfg.max_batches ELSE 0)
        /\ (result.status = "SUCCESS") <=> ~stageFailed

\* The limit cut a longer source short and the run succeeded.
C4_Witness ==
    /\ pc = "done" /\ cfg.max_batches >= 1 /\ src.n > cfg.max_batches
    /\ result.batches_processed = cfg.max_batches
    /\ result.status = "SUCCESS"
    /\ nLoadCalls = cfg.max_batches

\* ---------------------------------------------------------------------- C5
\* C5 as stated: under dry_run the loader is never invoked, and every extracted
\* batch has been through all configured transformers and is counted in
\* batches_processed.
C5_Original ==
    cfg.dry_run =>
        /\ nLoadCalls = 0
        /\ lastCall.op # "load"
        /\ pc = "done" =>
              /\ nTransformCalls = pulled * cfg.n_transformers
              /\ result.batches_processed = pulled

\* C5 amended: under dry_run the loader is never invoked at any point of the
\* run; every extracted batch is run through all configured transformers and
\* counted in batches_processed, except the batch in which a transformer fails
\* under stop_on_error=true: the run ends there, the later transformers are not
\* run on it and it is not counted.
C5_DryRun ==
    cfg.dry_run =>
        /\ nLoadCalls = 0
        /\ lastCall.op # "load"
        /\ pc # "load"
        /\ pc = "done" =>
              IF cfg.stop_on_error /\ stageFailed
              THEN /\ result.batches_processed = pulled - 1
                   /\ nTransformCalls =
                         (pulled - 1) * cfg.n_transformers + lastCall.idx
              ELSE /\ result.batches_processed = pulled
                   /\ nTransformCalls = pulled * cfg.n_transformers

\* A dry run of a pipeline that has a loader, over two batches and a transformer.
C5_Witness ==
    /\ cfg.dry_run /\ cfg.has_loader /\ pc = "done"
    /\ cfg.n_transformers >= 1
    /\ result.batches_processed >= 2
    /\ nTransformCalls >= 2

\* ---------------------------------------------------------------------- C6
\* C6: batches are processed one at a time. Calls never go back to an earlier
\* batch; a call on a later batch is a request to the extractor and comes only
\* after the previous batch's loader call has returned (or, when no loader call
\* is made, after its last transformer call); transformer and loader calls are
\* made on the batch last extracted; and after the loader call of a batch no
\* transformer is called on that batch.
C6_OneBatchAtATime ==
    [][CallStep =>
        /\ lastCall'.batch >= lastCall.batch
        /\ (lastCall'.batch > lastCall.batch /\ lastCall.op # "none") =>
              /\ lastCall'.op = "extract"
              /\ lastCall'.batch = lastCall.batch + 1
              /\ IF cfg.has_loader /\ ~cfg.dry_run
                 THEN lastCall.op = "load"
                 ELSE \/ lastCall.op = "transform"
                         /\ lastCall.idx = cfg.n_transformers
                      \/ lastCall.op = "extract" /\ cfg.n_transformers = 0
        /\ lastCall'.op \in {"transform", "load"} =>
              /\ lastCall'.batch = lastCall.batch
              /\ lastCall.status \notin {"stop", "raised"}
              /\ lastCall.op \in {"extract", "transform"}
        /\ lastCall.op = "load" => lastCall'.op = "extract"
    ]_vars

\* The extractor was asked for the second batch after the first batch went
\* through a transformer and the loader.
C6_Witness ==
    /\ lastCall.op = "extract" /\ lastCall.batch = 1 /\ lastCall.status = "ok"
    /\ cfg.has_loader /\ ~cfg.dry_run /\ cfg.n_transformers >= 1
    /\ nLoadCalls = 1

\* ---------------------------------------------------------------------- C7
\* C7: within a batch the transformers are called in configured order, each at
\* most once: the first call follows the extraction and receives the extracted
\* batch, call i + 1 follows call i and receives the dataset call i returned,
\* and the loader receives the dataset the last transformer call returned (the
\* extracted batch when there is no transformer).
C7_TransformersInOrder ==
    [][CallStep =>
        /\ lastCall'.op = "transform" =>
              /\ lastCall'.batch = lastCall.batch
              /\ lastCall'.din = lastCall.dout
              /\ lastCall'.idx \in 1 .. cfg.n_transformers
              /\ \/ lastCall.op = "extract" /\ lastCall'.idx = 1
                 \/ lastCall.op = "transform" /\ lastCall'.idx = lastCall.idx + 1
        /\ lastCall'.op = "load" =>
              /\ lastCall'.batch = lastCall.batch
              /\ lastCall'.din = lastCall.dout
              /\ \/ lastCall.op = "extract" /\ cfg.n_transformers = 0
                 \/ lastCall.op = "transform"
    ]_vars

\* The loader received a batch that two transformers had changed in turn.
C7_Witness ==
    /\ lastCall.op = "load"
    /\ lastCall.din.applied = <<1, 2>>
    /\ lastCall.din.packets < BatchLen

\* ---------------------------------------------------------------------- C8
\* C8 as stated: when a run has ended, batches_processed is the number of
\* extracted batches that were not cut short by a stop-on-error abort,
\* total_packets is the sum of the packet counts of those batches as the
\* transformers left them, and the pipeline's metrics counters hold the same
\* two values as the result.
C8_Original ==
    pc = "done" =>
        /\ result.batches_processed =
              pulled - (IF cfg.stop_on_error /\ stageFailed THEN 1 ELSE 0)
        /\ result.total_packets = packetsDone
        /\ metrics.batches = result.batches_processed
        /\ metrics.total_packets = result.total_packets

\* The part of C8 that holds in every run: the two counters of the result.
C8_ResultCounters ==
    pc = "done" =>
        /\ result.batches_processed =
              pulled - (IF cfg.stop_on_error /\ stageFailed THEN 1 ELSE 0)
        /\ result.total_packets = packetsDone

\* The metrics counters agree with the result in the first run of a Pipeline
\* object only.
C8_MetricsFirstRun ==
    (pc = "done" /\ runs = 1) =>
        /\ metrics.batches = result.batches_processed
        /\ metrics.total_packets = result.total_packets

\* ---------------------------------------------------------------------- C9
\* C9 as stated: the returned error list holds every captured failure once, in
\* the order of occurrence, and each entry carries the stage name and the batch
\* index of the failure.
C9_Original ==
    (pc = "done" /\ stageFailed) =>
        /\ Len(result.errors) = nraised
        /\ \A j \in 1 .. Len(result.errors) :
              /\ result.errors[j].exc_id = j
              /\ {"stage_name", "batch"} \subseteq DOMAIN result.errors[j]

\* The part of C9 that holds: every failure once, in order of occurrence.
C9_ErrorsInOrder ==
    pc = "done" =>
        /\ Len(result.errors) = nraised
        /\ \A j \in 1 .. Len(result.errors) : result.errors[j] = Exc(j)

\* --------------------------------------------------------------------- C10
\* The positions (1-based) of the buffer's packets that pass the APID filter.
RECURSIVE AcceptedFrom(_)
AcceptedFrom(i) ==
    IF i > Len(bkinds) THEN <<>>
    ELSE (IF scfg.apid_filter = {} \/ bkinds[i].apid \in scfg.apid_filter
          THEN <<i>> ELSE <<>>) \o AcceptedFrom(i + 1)

RECURSIVE Flatten(_)
Flatten(ys) == IF ys = <<>> THEN <<>> ELSE Head(ys) \o Flatten(Tail(ys))

CeilDiv(n, b) == (n + b - 1) \div b

\* C10: in plain mode, for a buffer of N well-formed back-to-back packets and
\* batch size B, the finished scan has yielded the accepted packets (all N when
\* no APID filter is set) in stream order, in exactly ceil(N/B) batches; every
\* batch holds between 1 and B packets and every batch but the last exactly B.
\* The scan of such a buffer never raises, and no batch yielded on the way is
\* empty or holds more than B packets.
C10_Batching ==
    (~scfg.frame_sync /\ bprefix = <<>> /\ btail = <<>>) =>
      /\ spc # "raised"
      /\ \A k \in 1 .. Len(yielded) : Len(yielded[k]) \in 1 .. scfg.batch_size
      /\ spc = "end" =>
        LET acc == AcceptedFrom(1)
            N == Len(acc)
            B == scfg.batch_size
            flat == Flatten(yielded)
        IN /\ (scfg.apid_filter = {} => N = Len(bkinds))
           /\ Len(yielded) = CeilDiv(N, B)
           /\ Len(flat) = N
           /\ \A k \in 1 .. Len(yielded) :
                 /\ Len(yielded[k]) >= 1
                 /\ Len(yielded[k]) <= B
                 /\ k < Len(yielded) => Len(yielded[k]) = B
           /\ \A j \in 1 .. N :
                 /\ flat[j].header.seq_count = acc[j] - 1
                 /\ flat[j].header.apid = bkinds[acc[j]].apid
                 /\ flat[j].secondary_header \o flat[j].user_data
                       = bkinds[acc[j]].data

\* Four packets, batch size three: a full batch and a final batch of one.
C10_Witness ==
    /\ spc = "end" /\ ~scfg.frame_sync /\ bprefix = <<>> /\ btail = <<>>
    /\ scfg.apid_filter = {}
    /\ Len(bkinds) = 4 /\ scfg.batch_size = 3
    /\ Len(yielded) = 2
    /\ Len(yielded[2]) = 1

\* ----------------------------------------------------------- scanner helpers
\* The byte sequence b holds the complete 4-byte sync marker somewhere.
ContainsMarker(b) ==
    \E i \in 1 .. Len(b) - 3 : SubSeq(b, i, i + 3) = SYNC_MARKER

\* pre is garbage followed by the sync marker.
EndsWithMarker(pre) ==
    Len(pre) >= 4 /\ SubSeq(pre, Len(pre) - 3, Len(pre)) = SYNC_MARKER

\* The garbage of such a prefix.
GarbageOf(pre) == SubSeq(pre, 1, Len(pre) - 4)

\* Every packet yielded so far,
\* in order.
Emitted == Flatten(yielded)

\* The emitted packets are exactly the buffer's packets at the positions acc,
\* in that order, with their own bytes.
Recovered(acc) ==
    /\ Len(Emitted) = Len(acc)
    /\ \A j \in 1 .. Len(acc) :
          /\ Emitted[j].header.seq_count = acc[j] - 1
          /\ Emitted[j].header.apid = bkinds[acc[j]].apid
          /\ Emitted[j].secondary_header \o Emitted[j].user_data
                = bkinds[acc[j]].data

\* At the end of the scan the packets accumulated since the last full batch
\* have been yielded as a final batch.
PartialFlushed ==
    sdataset = <<>> \/ (yielded # <<>> /\ yielded[Len(yielded)] = sdataset)

\* --------------------------------------------------------------------- C11
\* C11 as stated: in frame-sync mode, when every packet of the buffer is
\* preceded by garbage that does not hold the complete marker and then by the
\* marker, the finished scan has emitted every packet exactly once, in the
\* original order.
C11_Original ==
    (/\ scfg.frame_sync /\ spc = "end"
     /\ EndsWithMarker(bprefix) /\ ~ContainsMarker(GarbageOf(bprefix))
     /\ btail = <<>> /\ scfg.apid_filter = {}) =>
        Recovered([i \in 1 .. Len(bkinds) |-> i])

\* The part of C11 that holds: the same, when the garbage holds no byte equal
\* to the marker's first byte 0x1A.
C11_GarbageWithoutFirstByte ==
    (/\ scfg.frame_sync /\ spc = "end"
     /\ EndsWithMarker(bprefix)
     /\ \A i \in 1 .. Len(GarbageOf(bprefix)) :
           GarbageOf(bprefix)[i] # SYNC_MARKER[1]
     /\ btail = <<>> /\ scfg.apid_filter = {}) =>
        Recovered([i \in 1 .. Len(bkinds) |-> i])

\* --------------------------------------------------------------------- C12
\* C12: in frame-sync mode the scan never raises; on a buffer that holds no
\* sync marker nothing is ever accumulated or yielded; and when the scan ends
\* because no further marker exists, what was recovered has been emitted: the
\* packets accumulated since the last full batch are yielded as a final batch,
\* and on a buffer whose packets each follow clean garbage and a marker,
\* whatever trails the last packet, the emitted packets are exactly the
\* complete packets that pass the APID filter.
C12_NoMarkerCleanEnd ==
    scfg.frame_sync =>
        /\ spc # "raised"
        /\ ~ContainsMarker(buf) => (yielded = <<>> /\ sdataset = <<>>)
        /\ spc = "end" => PartialFlushed
        /\ (/\ spc = "end" /\ EndsWithMarker(bprefix)
            /\ \A i \in 1 .. Len(GarbageOf(bprefix)) :
                  GarbageOf(bprefix)[i] # SYNC_MARKER[1]) =>
              Recovered(AcceptedFrom(1))

\* A frame-sync scan of two packets and trailing garbage, none of it holding a
\* marker, has ended.
C12_Witness ==
    /\ scfg.frame_sync /\ spc = "end"
    /\ ~ContainsMarker(buf) /\ Len(bkinds) = 2 /\ btail = <<255, 26, 207>>
    /\ yielded = <<>>

\* --------------------------------------------------------------------- C13
\* The positions (1-based) of the buffer's packets whose APID is in the list.
RECURSIVE AllowedFrom(_)
AllowedFrom(i) ==
    IF i > Len(bkinds) THEN <<>>
    ELSE (IF bkinds[i].apid \in scfg.apid_filter THEN <<i>> ELSE <<>>)
         \o AllowedFrom(i + 1)

\* C13 as stated: when an APID allow-list is configured, every packet the
\* scanner holds or has yielded has its APID in the list; on a well-formed
\* plain-mode buffer the emitted packets are exactly the packets whose APID is
\* in the list, each with its own bytes (the others were consumed in full), and
\* only they count toward the batch size (every batch but the last holds
\* batch_size packets).
C13_Original ==
    scfg.filter_set =>
        /\ \A j \in 1 .. Len(Emitted) :
              Emitted[j].header.apid \in scfg.apid_filter
        /\ \A j \in 1 .. Len(sdataset) :
              sdataset[j].header.apid \in scfg.apid_filter
        /\ (spc = "end" /\ ~scfg.frame_sync /\ bprefix = <<>>) =>
              /\ Recovered(AllowedFrom(1))
              /\ \A k \in 1 .. Len(yielded) - 1 :
                    Len(yielded[k]) = scfg.batch_size

\* The part of C13 that holds: the same, for a list that is not empty.
C13_NonEmptyList ==
    (scfg.filter_set /\ scfg.apid_filter # {}) =>
        /\ \A j \in 1 .. Len(Emitted) :
              Emitted[j].header.apid \in scfg.apid_filter
        /\ \A j \in 1 .. Len(sdataset) :
              sdataset[j].header.apid \in scfg.apid_filter
        /\ (spc = "end" /\ ~scfg.frame_sync /\ bprefix = <<>>) =>
              /\ Recovered(AllowedFrom(1))
              /\ \A k \in 1 .. Len(yielded) - 1 :
                    Len(yielded[k]) = scfg.batch_size

\* --------------------------------------------------------------------- C14
\* C14: in plain mode the scan never raises; when it ends (fewer than 6 bytes
\* at the cursor, or a header declaring more data than remains) the packets
\* accumulated since the last full batch have been yielded as a final batch;
\* and on a buffer of well-formed packets followed by nothing, by fewer than 6
\* bytes or by a packet cut short, the emitted packets are exactly the
\* complete packets (that pass the APID filter), the incomplete one not among
\* them.
C14_EndOfStream ==
    ~scfg.frame_sync =>
        /\ spc # "raised"
        /\ spc = "end" => PartialFlushed
        /\ (spc = "end" /\ bprefix = <<>>) => Recovered(AcceptedFrom(1))

\* Two complete packets and a packet cut short, batch size three: one final
\* batch of two.
C14_Witness ==
    /\ ~scfg.frame_sync /\ spc = "end" /\ bprefix = <<>>
    /\ btail = TruncatedPacket
    /\ Len(bkinds) = 2 /\ scfg.batch_size = 3 /\ scfg.apid_filter = {}
    /\ Len(yielded) = 1 /\ Len(yielded[1]) = 2

\* --------------------------------------------------------------------- C15
\* C15 is about a header rejected at the cursor. No 6 bytes are ever rejected:
\* CCSDSPrimaryHeader.from_bytes accepts every 6-byte string, and in no scan
\* state do the 6 bytes at the cursor fail to decode.
C15_NoHeaderRejected ==
    /\ (cop = "decode" /\ Len(cin.raw) = 6) => cout.ok
    /\ (spc = "scan" /\ ~scfg.frame_sync /\ pos + 6 <= Len(buf)) =>
          HeaderFromBytes(Read(buf, pos, CCSDS_HEADER_SIZE)).ok

\* --------------------------------------------------------------------- C16
\* C16: for every header with fields in range, to_bytes returns exactly 6
\* bytes (each 0..255), and from_bytes of those bytes succeeds and returns a
\* header equal to the original, field by field.
C16_RoundTrip ==
    /\ cop = "encode" =>
          /\ HeaderValid(cin.header)
          /\ Len(cout.raw) = 6
          /\ \A i \in 1 .. Len(cout.raw) : cout.raw[i] \in 0 .. 255
    /\ cop = "roundtrip" =>
          /\ cout.ok
          /\ cout.header = cin.header

\* A header with every field at its maximum went through the round trip.
C16_Witness ==
    /\ cop = "roundtrip" /\ cout.ok
    /\ cin.header.version = 7 /\ cin.header.apid = 2047
    /\ cin.header.seq_flags = 3 /\ cin.header.seq_count = 16383
    /\ cin.header.data_length = 65535 /\ cin.header.sec_hdr_flag = 1

\* --------------------------------------------------------------------- C17
\* C17: every packet a constructor call or from_bytes returns satisfies
\* len(secondary_header) + len(user_data) = header.data_length + 1; a
\* constructor call succeeds exactly when its parts satisfy this, the packet
\* then holds the parts as given (nothing cut, nothing padded), and a failed
\* call leaves no packet.
C17_PacketInvariant ==
    cop \in {"construct", "parse"} =>
        /\ cout.ok =>
              Len(cout.packet.secondary_header) + Len(cout.packet.user_data)
                 = cout.packet.header.data_length + 1
        /\ ~cout.ok => cout.packet = NoPacket
        /\ cop = "construct" =>
              /\ cout.ok <=>
                    (Len(cin.secondary_header) + Len(cin.user_data)
                        = cin.header.data_length + 1)
              /\ cout.ok =>
                    cout.packet = [header |-> cin.header,
                                   secondary_header |-> cin.secondary_header,
                                   user_data |-> cin.user_data]

\* A constructor call with three bytes of user data under a header declaring
\* four was rejected.
C17_Witness ==
    /\ cop = "construct" /\ ~cout.ok
    /\ cin.header.data_length = 3
    /\ Len(cin.secondary_header) = 0 /\ Len(cin.user_data) = 3

\* --------------------------------------------------------------------- C18
\* The header the first 6 bytes of raw decode to (raw holds at least 6 bytes).
RawHeader(raw) == HeaderFromBytes(SubSeq(raw, 1, 6)).header

\* The bytes of raw that follow the header, up to the declared length.
RawDataField(raw) ==
    SubSeq(raw, 7, Min(6 + PacketDataLength(RawHeader(raw)), Len(raw)))

\* C18 as stated: a packet from_bytes returns has, when the header's
\* secondary-header flag is set and sec_hdr_length > 0, the first
\* sec_hdr_length bytes of the data field as secondary_header and the rest as
\* user_data; otherwise an empty secondary_header and the whole data field as
\* user_data; in both cases secondary_header followed by user_data is the
\* packet_data_length bytes after the header.
C18_Original ==
    (cop = "parse" /\ cout.ok) =>
        LET df == RawDataField(cin.raw)
            sh == cout.packet.secondary_header
            ud == cout.packet.user_data
            n == cin.sec_hdr_length
        IN /\ Len(df) = PacketDataLength(RawHeader(cin.raw))
           /\ sh \o ud = df
           /\ IF RawHeader(cin.raw).sec_hdr_flag = 1 /\ n > 0
              THEN Len(sh) = n
              ELSE sh = <<>> /\ ud = df

\* The part of C18 that holds: the secondary header is the first
\* min(sec_hdr_length, packet_data_length) bytes of the data field.
C18_SplitUpToLength ==
    (cop = "parse" /\ cout.ok) =>
        LET df == RawDataField(cin.raw)
            sh == cout.packet.secondary_header
            ud == cout.packet.user_data
            n == cin.sec_hdr_length
        IN /\ Len(df) = PacketDataLength(RawHeader(cin.raw))
           /\ sh \o ud = df
           /\ IF RawHeader(cin.raw).sec_hdr_flag = 1 /\ n > 0
              THEN Len(sh) = Min(n, Len(df))
              ELSE sh = <<>> /\ ud = df

\* --------------------------------------------------------------------- C19
\* C19: from_bytes fails and builds no packet whenever raw holds fewer than 6
\* bytes or fewer than 6 + packet_data_length bytes, the length being the one
\* its header declares; a packet it returns has its whole data field.
C19_ShortBufferFails ==
    cop = "parse" =>
        /\ Len(cin.raw) < 6 => (~cout.ok /\ cout.packet = NoPacket)
        /\ (/\ Len(cin.raw) >= 6
            /\ Len(cin.raw) < 6 + PacketDataLength(RawHeader(cin.raw))) =>
              (~cout.ok /\ cout.packet = NoPacket)
        /\ cout.ok =>
              /\ Len(cin.raw) >= 6 + PacketDataLength(cout.packet.header)
              /\ Len(cout.packet.secondary_header) + Len(cout.packet.user_data)
                    = PacketDataLength(cout.packet.header)

\* A buffer with a whole header declaring four data bytes and only two after
\* it was rejected.
C19_Witness ==
    /\ cop = "parse" /\ ~cout.ok
    /\ Len(cin.raw) = 8 /\ RawHeader(cin.raw).data_length = 3
    /\ RawHeader(cin.raw) = cin.header

\* --------------------------------------------------------------------- C20
\* The configuration holds no definition for the APID.
UnknownApid(apid) ==
    \A i \in 1 .. Len(dcfg.parameters) : dcfg.parameters[i].apid # apid

\* C20: when the loop of DecomTransformer.transform comes to a packet whose
\* APID has no definition, then with skip_unknown_apids=true the packet is
\* passed over (no record or sample is added or changed) and the loop goes on
\* to the next packet, and with skip_unknown_apids=false transform raises at
\* that packet, leaving the parameters as they were.
C20_UnknownApidPolicy ==
    [][(/\ dpc = "run" /\ dk < Len(dpackets)
        /\ UnknownApid(dpackets[dk + 1].apid)) =>
          IF dcfg.skip_unknown_apids
          THEN dparams' = dparams /\ dk' = dk + 1 /\ dpc' = "run"
          ELSE dparams' = dparams /\ dk' = dk /\ dpc' = "raised"
    ]_vars

\* Skipping: a batch whose first packet has an unknown APID and whose second
\* packet was decommutated, transform having returned.
C20_Witness ==
    /\ dpc = "done" /\ dcfg.skip_unknown_apids
    /\ Len(dpackets) = 2 /\ UnknownApid(dpackets[1].apid)
    /\ ~UnknownApid(dpackets[2].apid)
    /\ dparams # <<>>
    /\ \A i \in 1 .. Len(dparams) :
          \A j \in 1 .. Len(dparams[i].samples) :
             dparams[i].samples[j].seq_count = 1

\* ------------------------------------------------------------ decom helpers
\* dataset.parameters.get(name).samples, <<>> when there is no such record.
SamplesOf(ps, name) ==
    IF \E i \in 1 .. Len(ps) : ps[i].name = name
    THEN ps[CHOOSE i \in 1 .. Len(ps) : ps[i].name = name].samples
    ELSE <<>>

\* The names the definitions of the configuration give.
DefNames == { dcfg.parameters[i].name : i \in 1 .. Len(dcfg.parameters) }

\* byte_offset + ceil(bit_length / 8) exceeds the length of the user data.
TooShortFor(packet, d) ==
    d.byte_offset + CeilDiv(d.bit_length, 8) > Len(packet.user_data)

\* The entries of the configuration that apply to the packet, fit into its
\* user data and are named `name`.
FittingDefs(packet, name) ==
    { i \in 1 .. Len(dcfg.parameters) :
        /\ dcfg.parameters[i].apid = packet.apid
        /\ dcfg.parameters[i].name = name
        /\ ~TooShortFor(packet, dcfg.parameters[i]) }

\* An entry of the configuration applies to the packet and does not fit.
HasShortDef(packet) ==
    \E i \in 1 .. Len(dcfg.parameters) :
        /\ dcfg.parameters[i].apid = packet.apid
        /\ TooShortFor(packet, dcfg.parameters[i])

\* --------------------------------------------------------------------- C21
\* C21: when the loop of DecomTransformer.transform handles a packet whose APID
\* has definitions, no error is raised and the loop goes on to the next
\* packet, whether or not every definition fits; and each record grows by
\* exactly one sample per definition of that name that fits into the user
\* data, so a definition whose byte_offset + ceil(bit_length/8) exceeds the
\* user-data length adds nothing while those that fit are still decoded.
C21_ShortDataSkipped ==
    [][(/\ dpc = "run" /\ dk < Len(dpackets)
        /\ ~UnknownApid(dpackets[dk + 1].apid)) =>
          /\ dpc' = "run" /\ dk' = dk + 1
          /\ \A name \in DefNames :
                Len(SamplesOf(dparams', name)) =
                  Len(SamplesOf(dparams, name))
                    + Cardinality(FittingDefs(dpackets[dk + 1], name))
    ]_vars

\* transform() has returned from a batch of two packets: the first had one
\* definition too long for it and another that fitted and was decoded, and the
\* second packet was decoded after it.
C21_Witness ==
    /\ dpc = "done" /\ Len(dpackets) = 2
    /\ HasShortDef(dpackets[1])
    /\ \E name \in DefNames :
          /\ FittingDefs(dpackets[1], name) # {}
          /\ \E j \in 1 .. Len(SamplesOf(dparams, name)) :
                SamplesOf(dparams, name)[j].seq_count = 0
    /\ \E name \in DefNames :
          /\ FittingDefs(dpackets[2], name) # {}
          /\ \E j \in 1 .. Len(SamplesOf(dparams, name)) :
                SamplesOf(dparams, name)[j].seq_count = 1

\* --------------------------------------------------------------------- C22
\* The value of a lower-case hexadecimal digit given by code point, -1 for
\* any other character.
HexValue(c) ==
    IF c \in 48 .. 57 THEN c - 48 ELSE IF c \in 97 .. 102 THEN c - 87 ELSE -1

\* The text is the hexadecimal spelling of the bytes.
IsHexOf(cs, bs) ==
    /\ Len(cs) = 2 * Len(bs)
    /\ \A i \in 1 .. Len(bs) :
          /\ HexValue(cs[2 * i - 1]) >= 0 /\ HexValue(cs[2 * i]) >= 0
          /\ 16 * HexValue(cs[2 * i - 1]) + HexValue(cs[2 * i]) = bs[i]

\* The names of the records of the batch.
RecordNames == { dparams[i].name : i \in 1 .. Len(dparams) }

\* The samples of the record `name` taken from the k-th packet.
SamplesFrom(name, k) ==
    { j \in 1 .. Len(SamplesOf(dparams, name)) :
        SamplesOf(dparams, name)[j].seq_count = dpackets[k].seq_count }

\* After transform() has returned: there is one record a name, none of them
\* empty; the record of each name holds, for every packet, one sample per
\* definition of that name that applies to the packet and fits, and nothing
\* else; the samples are in packet order and carry the name, the APID and the
\* sequence count of their packet.
DecomSamplesComplete ==
    dpc = "done" =>
      /\ \A i, j \in 1 .. Len(dparams) :
            dparams[i].name = dparams[j].name => i = j
      /\ \A i \in 1 .. Len(dparams) : dparams[i].samples # <<>>
      /\ \A name \in DefNames \cup RecordNames :
            LET ss == SamplesOf(dparams, name) IN
            /\ \A k \in 1 .. Len(dpackets) :
                  Cardinality(SamplesFrom(name, k)) =
                    Cardinality(FittingDefs(dpackets[k], name))
            /\ \A j \in 1 .. Len(ss) :
                  /\ ss[j].name = name
                  /\ ss[j].seq_count \in 0 .. Len(dpackets) - 1
                  /\ ss[j].apid = dpackets[ss[j].seq_count + 1].apid
            /\ \A i, j \in 1 .. Len(ss) :
                  i < j => ss[i].seq_count <= ss[j].seq_count

\* C22 as stated: after transform() every definition has given one sample per
\* packet of its APID that is long enough, appended in packet order to the
\* record of its name with the packet's APID and sequence count, the
\* engineering value of every sample equals its raw value, and the packet
\* list is unchanged.
C22_Original ==
    /\ [](/\ DecomSamplesComplete
          /\ dpc = "done" =>
                \A i \in 1 .. Len(dparams) :
                   \A j \in 1 .. Len(dparams[i].samples) :
                      dparams[i].samples[j].eng_value =
                        dparams[i].samples[j].raw_value)
    /\ [][dpackets' = dpackets]_vars

\* C22, amended: as above, except that the engineering value equals the raw
\* value only when the raw value is not a bytes object; for a bytes raw value
\* (a binary parameter) it is the hexadecimal text of those bytes.
C22_SamplesPerDefinition ==
    /\ [](/\ DecomSamplesComplete
          /\ dpc = "done" =>
                \A i \in 1 .. Len(dparams) :
                   \A j \in 1 .. Len(dparams[i].samples) :
                      LET smp == dparams[i].samples[j] IN
                      IF smp.raw_value.kind = "bytes"
                      THEN /\ smp.eng_value.kind = "str"
                           /\ IsHexOf(smp.eng_value.s, smp.raw_value.s)
                      ELSE smp.eng_value = smp.raw_value)
    /\ [][dpackets' = dpackets]_vars

\* transform() has returned from two packets that each gave a sample to the
\* same record, and a binary parameter was decoded.
C22_Witness ==
    /\ dpc = "done" /\ Len(dpackets) = 2
    /\ \E name \in RecordNames :
          SamplesFrom(name, 1) # {} /\ SamplesFrom(name, 2) # {}
    /\ \E i \in 1 .. Len(dparams) :
          \E j \in 1 .. Len(dparams[i].samples) :
             /\ dparams[i].samples[j].raw_value.kind = "bytes"
             /\ dparams[i].samples[j].raw_value.s # <<>>

\* --------------------------------------------------------------------- C23
\* An unsigned 16-bit big-endian definition at byte offset 0.
IsUint16AtZero(d) ==
    /\ d.param_type = "uint" /\ d.bit_length = 16
    /\ ~d.little_endian /\ d.byte_offset = 0

\* C23: for every unsigned 16-bit big-endian definition at byte offset 0 and
\* every packet of its APID the loop has handled whose user data starts with
\* the bytes b0, b1, the record of the definition's name holds a sample of
\* that packet, and the raw value of each such sample is the integer
\* 256*b0 + b1.
C23_Uint16BigEndian ==
    \A i \in 1 .. Len(dcfg.parameters) :
       \A k \in 1 .. dk :
          LET d == dcfg.parameters[i]
              packet == dpackets[k]
          IN (/\ IsUint16AtZero(d) /\ packet.apid = d.apid
              /\ Len(packet.user_data) >= 2) =>
               /\ SamplesFrom(d.name, k) # {}
               /\ \A j \in SamplesFrom(d.name, k) :
                     LET raw == SamplesOf(dparams, d.name)[j].raw_value IN
                     /\ raw.kind = "int"
                     /\ raw.n = 256 * packet.user_data[1] + packet.user_data[2]

\* The field 0xFF 0x00 has been decommutated to 65280.
C23_Witness ==
    \E i \in 1 .. Len(dcfg.parameters) :
       \E k \in 1 .. dk :
          /\ IsUint16AtZero(dcfg.parameters[i])
          /\ dpackets[k].apid = dcfg.parameters[i].apid
          /\ dpackets[k].user_data = <<255, 0>>
          /\ \E j \in SamplesFrom(dcfg.parameters[i].name, k) :
                SamplesOf(dparams, dcfg.parameters[i].name)[j].raw_value.n = 65280

\* ------------------------------------------------------ calibration helpers
\* The configuration has a calibration entry for the name.
HasEntry(name) ==
    \E i \in 1 .. Len(kcfg.calibrations) :
        kcfg.calibrations[i].parameter_name = name

\* A sample of the record has been rebuilt by the calibration.
Calibrated(record) ==
    \E j \in 1 .. Len(record.samples) :
        record.samples[j].calibration_id # NoCalibration

\* --------------------------------------------------------------------- C24
\* C24: no step of CalibrationTransformer.transform adds, removes, renames or
\* reorders a parameter record or touches the packets, and a record whose
\* name has no calibration entry keeps its samples, in order, and its unit.
C24_UncalibratedUntouched ==
    [][/\ kpackets' = kpackets
       /\ Len(kparams') = Len(kparams)
       /\ \A i \in 1 .. Len(kparams) :
             /\ kparams'[i].name = kparams[i].name
             /\ ~HasEntry(kparams[i].name) => kparams'[i] = kparams[i]
    ]_vars

\* transform() has returned from a batch with packets and two records: one was
\* calibrated, the other has no entry and is as it was handed in.
C24_Witness ==
    /\ kpc = "done" /\ kpackets # <<>> /\ Len(kparams) = 2
    /\ \E i, j \in 1 .. 2 :
          /\ HasEntry(kparams[i].name) /\ Calibrated(kparams[i])
          /\ ~HasEntry(kparams[j].name) /\ ~Calibrated(kparams[j])
          /\ kparams[j].unit = "DN"

\* --------------------------------------------------------------------- C25
\* The value _interpolate returned is the number v.
Returned(v) == iout.ok /\ iout.num = v * iout.den

NotNumeric(sample) == ~ToFloat(sample.raw_value).ok

\* The methods of the entries the configuration has for the name.
MethodsFor(name) ==
    { kcfg.calibrations[i].method :
        i \in { j \in 1 .. Len(kcfg.calibrations) :
                  kcfg.calibrations[j].parameter_name = name } }

\* C26: when the record loop of CalibrationTransformer.transform handles a
\* record that has a calibration entry and holds a sample whose raw value is
\* not numeric, the step does not fail and goes on to the next record, every
\* such sample is kept exactly as it was, and every other sample of the record
\* is calibrated (it carries the method of an entry of that name and a float
\* engineering value).
C26_NonNumericPassThrough ==
    [][(/\ kpc = "run" /\ kr < Len(kparams)
        /\ HasEntry(kparams[kr + 1].name)
        /\ \E j \in 1 .. Len(kparams[kr + 1].samples) :
              NotNumeric(kparams[kr + 1].samples[j])) =>
          /\ kpc' = "run" /\ kr' = kr + 1
          /\ Len(kparams'[kr + 1].samples) = Len(kparams[kr + 1].samples)
          /\ \A j \in 1 .. Len(kparams[kr + 1].samples) :
                LET before == kparams[kr + 1].samples[j]
                    after == kparams'[kr + 1].samples[j]
                IN IF NotNumeric(before)
                   THEN after = before
                   ELSE /\ after.calibration_id \in MethodsFor(before.name)
                        /\ after.eng_value.kind = "float"
    ]_vars

\* transform() has returned from a record with an entry whose samples are a
\* binary payload, left as it was, and a number, calibrated.
C26_Witness ==
    /\ kpc = "done"
    /\ \E i \in 1 .. Len(kparams) :
          /\ HasEntry(kparams[i].name)
          /\ \E j, k \in 1 .. Len(kparams[i].samples) :
                /\ NotNumeric(kparams[i].samples[j])
                /\ kparams[i].samples[j].calibration_id = NoCalibration
                /\ kparams[i].samples[j].eng_value.kind = "str"
                /\ ~NotNumeric(kparams[i].samples[k])
                /\ kparams[i].samples[k].calibration_id # NoCalibration

\* --------------------------------------------------------------------- C27
\* The record loop is about to handle a record that has a calibration entry.
AtCalibratedRecord ==
    kpc = "run" /\ kr < Len(kparams) /\ HasEntry(kparams[kr + 1].name)

\* The calibration left the identity, the raw value and the flags of the
\* sample alone and recorded the method.
CarriedThrough(before, after, cal) ==
    /\ after.name = before.name
    /\ after.apid = before.apid
    /\ after.seq_count = before.seq_count
    /\ after.sample_time_tai = before.sample_time_tai
    /\ after.raw_value = before.raw_value
    /\ after.validity = before.validity
    /\ after.out_of_limit = before.out_of_limit
    /\ after.alarm_level = before.alarm_level
    /\ after.calibration_id = cal.method

\* C27 as stated: in the step that calibrates a record, the number and order
\* of its samples are preserved and every sample with a numeric raw value
\* keeps its name, APID, sequence count, sample time, raw value, validity,
\* out-of-limit flag and alarm level, gets the entry's method as
\* calibration_id, and gets the entry's unit as unit.
C27_Original ==
    [][AtCalibratedRecord =>
         LET cal == CalFor(kparams[kr + 1].name) IN
         /\ Len(kparams'[kr + 1].samples) = Len(kparams[kr + 1].samples)
         /\ \A j \in 1 .. Len(kparams[kr + 1].samples) :
               LET before == kparams[kr + 1].samples[j]
                   after == kparams'[kr + 1].samples[j]
               IN ~NotNumeric(before) =>
                    /\ CarriedThrough(before, after, cal)
                    /\ after.unit = cal.unit
    ]_vars

\* C27, amended: as above, except that the unit becomes the entry's unit only
\* when the entry has one; under an entry without a unit the sample keeps the
\* unit it had.
C27_FieldsCarriedThrough ==
    [][AtCalibratedRecord =>
         LET cal == CalFor(kparams[kr + 1].name) IN
         /\ Len(kparams'[kr + 1].samples) = Len(kparams[kr + 1].samples)
         /\ \A j \in 1 .. Len(kparams[kr + 1].samples) :
               LET before == kparams[kr + 1].samples[j]
                   after == kparams'[kr + 1].samples[j]
               IN ~NotNumeric(before) =>
                    /\ CarriedThrough(before, after, cal)
                    /\ after.unit = IF cal.unit = NoUnit THEN before.unit
                                    ELSE cal.unit
    ]_vars

\* transform() has returned: a sample flagged invalid, out of limit and alarmed
\* was calibrated under an entry without a unit and kept flags and unit, and a
\* sample of another record took the unit of its entry.
C27_Witness ==
    /\ kpc = "done"
    /\ \E i \in 1 .. Len(kparams) :
          /\ HasEntry(kparams[i].name)
          /\ CalFor(kparams[i].name).unit = NoUnit
          /\ \E j \in 1 .. Len(kparams[i].samples) :
                LET smp == kparams[i].samples[j] IN
                /\ smp.calibration_id = CalFor(kparams[i].name).method
                /\ ~smp.validity /\ smp.out_of_limit /\ smp.alarm_level = 2
                /\ smp.unit = "DN"
    /\ \E i \in 1 .. Len(kparams) :
          /\ HasEntry(kparams[i].name)
          /\ \E j \in 1 .. Len(kparams[i].samples) :
                /\ kparams[i].samples[j].calibration_id # NoCalibration
                /\ kparams[i].samples[j].unit = CalFor(kparams[i].name).unit

\* ------------------------------------------------------------ merge helpers
\* What a dataset holds as seen through its own attributes: the packets, the
\* metadata, and the records by name with their sample lists.
Contents(ds, heap) ==
    [packets |-> ds.packets, metadata |-> ds.metadata,
     parameters |-> [i \in 1 .. Len(ds.parameters) |->
                       [name |-> ds.parameters[i].name,
                        record |-> heap[ds.parameters[i].rec]]]]

\* ds.get_parameter(name).samples, <<>> when the dataset has no such record.
MergedSamples(ds, heap, name) ==
    IF HasName(ds.parameters, name)
    THEN heap[RecordAt(ds.parameters, name)].samples
    ELSE <<>>

\* The samples the dataset built as `owner` held for the name before any merge.
OriginalSamples(owner, name) ==
    IF <<owner, name>> \in DOMAIN mheap0 THEN mheap0[<<owner, name>>].samples
    ELSE <<>>

\* --------------------------------------------------------------------- C28
\* C28 as stated: a call x.merge(y) leaves every dataset that existed before
\* it, x and y among them, with the same packets, metadata, parameter records
\* and sample lists as before the call.
C28_Original ==
    [][\A k \in DOMAIN mdatasets :
          Contents(mdatasets'[k], mheap') = Contents(mdatasets[k], mheap)
    ]_vars

\* What does hold of merge: the packets, the metadata and the set of record
\* names of the datasets that existed before the call are unchanged, and a
\* record loses no sample (its old sample list is a prefix of the new one).
C28_NothingLost ==
    [][\A k \in DOMAIN mdatasets :
          /\ mdatasets'[k] = mdatasets[k]
          /\ \A i \in 1 .. Len(mdatasets[k].parameters) :
                LET rec == mdatasets[k].parameters[i].rec IN
                /\ Len(mheap'[rec].samples) >= Len(mheap[rec].samples)
                /\ SubSeq(mheap'[rec].samples, 1, Len(mheap[rec].samples)) =
                     mheap[rec].samples
    ]_vars

\* --------------------------------------------------------------------- C29
\* The concatenation of a's, b's and c's samples for the name.
Concatenation(name) ==
    OriginalSamples("a", name) \o OriginalSamples("b", name)
      \o OriginalSamples("c", name)

\* C29 as stated: once (a.merge(b)).merge(c) and a.merge(b.merge(c)) have both
\* been evaluated, each holds for every parameter name the concatenation of
\* a's, b's and c's samples for that name, every sample exactly once.
C29_Original ==
    {"left", "right"} \subseteq DOMAIN mdatasets =>
       \A name \in MergeNames :
          /\ MergedSamples(mdatasets["left"], mheap, name) = Concatenation(name)
          /\ MergedSamples(mdatasets["right"], mheap, name) = Concatenation(name)

\* What does hold: each of the two expressions, evaluated on datasets that no
\* other merge has touched, returns the concatenation for every name.
C29_EachAlone ==
    /\ ("left" \in DOMAIN mdatasets /\ "bc" \notin DOMAIN mdatasets) =>
          \A name \in MergeNames :
             MergedSamples(mdatasets["left"], mheap, name) = Concatenation(name)
    /\ ("right" \in DOMAIN mdatasets /\ "ab" \notin DOMAIN mdatasets) =>
          \A name \in MergeNames :
             MergedSamples(mdatasets["right"], mheap, name) = Concatenation(name)

\* --------------------------------------------------------------------- C30
\* Calls of setup() and of teardown() made on the extractor in a run: run()
\* iterates self.extractor.extract() itself and never goes through
\* _timed_extract, the only caller of the extractor's setup() and teardown().
ExtractorSetupCalls == 0
ExtractorTeardownCalls == 0

\* Calls of setup() and of teardown() made on the loader in this run: one of
\* each in every _timed_load.
LoaderSetupCalls == nLoadCalls
LoaderTeardownCalls == nLoadCalls

\* Calls of setup() and of teardown() made on the transformers in this run,
\* all transformers together: one of each in every _timed_transform.
TransformerSetupCalls == nTransformCalls
TransformerTeardownCalls == nTransformCalls

\* C30 as stated: in a run that has ended, setup() and teardown() have been
\* called once on the extractor, at most once on the loader and at most once
\* on each transformer (so at most n_transformers times on the transformers
\* together), however many batches were processed.
C30_Original ==
    pc = "done" =>
      /\ ExtractorSetupCalls = 1
      /\ ExtractorTeardownCalls = 1
      /\ LoaderSetupCalls <= 1
      /\ LoaderTeardownCalls <= 1
      /\ TransformerSetupCalls <= cfg.n_transformers
      /\ TransformerTeardownCalls <= cfg.n_transformers

\* What does hold: the extractor's setup() and teardown() are not called;
\* every setup() of a transformer or loader is matched by one teardown(), and
\* there is at most one pair per stage and batch.
C30_OncePerInvocation ==
    /\ ExtractorSetupCalls = 0 /\ ExtractorTeardownCalls = 0
    /\ LoaderTeardownCalls = LoaderSetupCalls
    /\ TransformerTeardownCalls = TransformerSetupCalls
    /\ LoaderSetupCalls <= pulled
    /\ TransformerSetupCalls <= pulled * cfg.n_transformers

\* ---------------------------------------------------------------------- C34
\* C34: run() always returns a result. An exception raised while the loop asks
\* the extractor for a batch (before the first batch or after some batches) is
\* appended to the errors as one error and ends the run at once with status
\* FAILED, whatever stop_on_error is: no transformer, no loader and no further
\* request to the extractor follows, and the result carries the
\* batches_processed and total_packets counted before the exception.
C34_ExtractorFailure ==
    /\ [](lastCall.status = "raised" =>
             /\ lastCall.op = "extract"
             /\ pc = "done"
             /\ result.status = "FAILED"
             /\ result.batches_processed = batches
             /\ result.total_packets = total_packets)
    /\ [][(pc = "extract" /\ lastCall'.status = "raised") =>
             /\ pc' = "done"
             /\ result'.errors = Append(errors, Exc(nraised + 1))
             /\ result'.batches_processed = batches
             /\ result'.total_packets = total_packets
             /\ pulled' = pulled
             /\ nTransformCalls' = nTransformCalls
             /\ nLoadCalls' = nLoadCalls]_vars

\* The extractor raised mid-stream under stop_on_error=false, after batches with
\* packets had been counted.
C34_Witness ==
    /\ lastCall.status = "raised" /\ pc = "done"
    /\ ~cfg.stop_on_error
    /\ result.batches_processed >= 1
    /\ result.total_packets >= 1
    /\ Len(result.errors) = 1

\* ---------------------------------------------------------------------- C35
\* C35: a failing loader call adds exactly one error and the run goes on to
\* return a result. Under stop_on_error=false the batch whose load failed is
\* counted (batches and packets) and the loop continues as after a successful
\* load: the next batch is requested unless the batch limit is reached. Under
\* stop_on_error=true the run ends at once and the batch is not counted. So in a
\* run with a loader outside dry-run the number of loader calls is always the
\* number of counted batches or one more, and one more only after a load that
\* failed under stop_on_error=true.
C35_LoaderFailure ==
    /\ [](LoaderEnabled =>
             /\ nLoadCalls \in {batches, batches + 1}
             /\ nLoadCalls = batches + 1 =>
                   /\ cfg.stop_on_error /\ pc = "done"
                   /\ lastCall.op = "load" /\ lastCall.status = "FAILED"
                   /\ result.batches_processed = batches)
    /\ [][(pc = "load" /\ lastCall'.status = "FAILED") =>
             /\ errors' = Append(errors, Exc(nraised + 1))
             /\ nLoadCalls' = nLoadCalls + 1
             /\ IF cfg.stop_on_error
                THEN /\ pc' = "done"
                     /\ batches' = batches
                     /\ total_packets' = total_packets
                     /\ result'.status = "FAILED"
                ELSE /\ batches' = batches + 1
                     /\ total_packets' = total_packets + DsLen(dataset)
                     /\ pc' = IF LimitReached(batches + 1)
                              THEN "done" ELSE "extract"]_vars

\* Under stop_on_error=false the load of the first batch failed, the batch was
\* counted, and the second batch went through the loader as well.
C35_Witness ==
    /\ ~cfg.stop_on_error /\ LoaderEnabled /\ cfg.n_transformers = 0
    /\ lastCall.op = "load" /\ lastCall.batch = 1 /\ lastCall.status = "SUCCESS"
    /\ errors = <<Exc(1)>>
    /\ nLoadCalls = 2 /\ batches = 2
CountOf(c, m) == Cardinality({i \in DOMAIN c : c[i] = m})

\* A step that calls a transformer or the loader makes one bracket of calls.
BracketStep ==
    pc \in {"transform", "load"} =>
        LET c == lastCall'.calls
            body == pc
        IN /\ lastCall'.op = pc
           /\ c \in {<<"setup", body, "teardown">>, <<"setup", "teardown">>}
           /\ c[1] = "setup"
           /\ c[Len(c)] = "teardown"
           /\ CountOf(c, "setup") = 1
           /\ CountOf(c, "teardown") = 1
           /\ CountOf(c, body) <= 1
           /\ (CountOf(c, body) = 0) =>
                 /\ lastCall'.status = "FAILED"
                 /\ lastCall'.dout = lastCall'.din
                 /\ nraised' = nraised + 1
                 /\ stageFailed'
           /\ (lastCall'.status = "SUCCESS") => (CountOf(c, body) = 1)

Added ==
    IF spc = "end" THEN Emitted ELSE Emitted \o sdataset

\* Each iteration of the loop ends the scan or moves the cursor forward.
CursorAdvances == (spc = "scan" /\ spc' = "scan") => (pos' > pos)

\* The spans of the packets added so far lie in the buffer, one after the
\* other without a common byte, and each holds the bytes of its packet.
SpansDisjoint ==
    /\ Len(spans) = Len(Added)
    /\ \A i \in 1 .. Len(spans) :
          /\ 0 <= spans[i][1] /\ spans[i][1] < spans[i][2]
          /\ spans[i][2] <= Len(buf)
          /\ LET pr == PacketFromBytes(SubSeq(buf, spans[i][1] + 1, spans[i][2]),
                                       scfg.sec_hdr_length)
             IN pr.ok /\ pr.packet = Added[i]
    /\ \A i, j \in 1 .. Len(spans) : i < j => spans[i][2] <= spans[j][1]

\* C39: on every buffer and under every configuration the scan terminates
\* (the generator ends or an exception leaves it); the cursor never leaves the
\* buffer, every loop iteration that does not end the scan leaves the cursor
\* strictly further forward, and the packets emitted occupy pairwise disjoint
\* stretches of the buffer, in emission order.
C39_Terminates ==
    /\ <>(spc # "scan")
    /\ [](0 <= pos /\ pos <= Len(buf))
    /\ [][CursorAdvances]_vars
    /\ []SpansDisjoint

\* A frame-sync scan with an allow-list emitted a packet, passed over a
\* rejected packet, emitted a second packet and has ended at the end of the
\* buffer.
C39_Witness ==
    /\ spc = "end" /\ scfg.frame_sync /\ scfg.apid_filter # {}
    /\ Len(spans) = 2
    /\ spans[2][1] - spans[1][2] > 4
    /\ pos = Len(buf)

\* ---------------------------------------------------------------------- C40
\* C40: a second call of CalibrationTransformer.transform on the batch a first
\* call has returned changes nothing: it does not raise, and after every record
\* it has gone past, and when it returns, the records (names, units, and every
\* sample with its raw value, engineering value, unit, calibration id and
\* flags) are exactly those the first call left.
C40_Idempotent ==
    kpass = 2 =>
        /\ kpc \in {"run", "done"}
        /\ kparams = kfirst

\* A second call has returned on a batch in which the first call gave a numeric
\* sample a new engineering value, unit and calibration id and passed a
\* non-numeric sample through.
C40_Witness ==
    /\ kpass = 2 /\ kpc = "done"
    /\ \E r \in 1 .. Len(kparams) :
          /\ HasEntry(kparams[r].name)
          /\ \E j \in 1 .. Len(kparams[r].samples) :
                LET sample == kparams[r].samples[j] IN
                /\ sample.raw_value.kind = "int"
                /\ sample.eng_value.kind = "float"
                /\ sample.eng_value.n # sample.raw_value.n
                /\ sample.calibration_id # NoCalibration
                /\ sample.unit = "V"
          /\ \E j \in 1 .. Len(kparams[r].samples) :
                kparams[r].samples[j].raw_value.kind = "bytes"
\* ---------------------------------------------------------------------- C37
\* The batch holds, for each of its first n packets, one sample per definition
\* that applies to the packet and fits, and no sample of a later packet.
DecommutatedUpTo(n) ==
    \A name \in DefNames \cup RecordNames :
        \A k \in 1 .. Len(dpackets) :
            Cardinality(SamplesFrom(name, k)) =
               (IF k <= n THEN Cardinality(FittingDefs(dpackets[k], name)) ELSE 0)

\* C37: when DecomTransformer.transform raises at a packet (in strict mode, at
\* the first packet whose APID has no definition), the raise leaves
\* dataset.parameters as the loop had made them: the samples of all packets
\* before the failing one are in the batch and none of the failing or a later
\* packet. _timed_transform then reports FAILED, and with stop_on_error=false
\* the stages that follow are called with exactly that partially decommutated
\* batch.
C37_NoRollback ==
    /\ [](dpc = "raised" =>
             /\ ~dcfg.skip_unknown_apids
             /\ dk < Len(dpackets)
             /\ UnknownApid(dpackets[dk + 1].apid)
             /\ DecommutatedUpTo(dk))
    /\ []((dstage.status = "FAILED" /\ ~dstage.stop_on_error) =>
             /\ dpc = "raised"
             /\ dstage.passed
             /\ dstage.received = dparams)
    /\ [][(dpc = "run" /\ dpc' = "raised") => dparams' = dparams]_vars

\* Strict mode, stop_on_error=false: transform raised at the second packet
\* after samples of the first had been added, and the next stage was called
\* with the batch holding those samples.
C37_Witness ==
    /\ dstage.status = "FAILED" /\ ~dstage.stop_on_error /\ dstage.passed
    /\ ~dcfg.skip_unknown_apids
    /\ dk = 1 /\ Len(dpackets) = 2
    /\ dstage.received # <<>>
    /\ \E name \in RecordNames : SamplesFrom(name, 1) # {}

\* ------------------------------------------------------------- event hook
\* The handlers a fire has called, in the order of the calls.
InvokedHandlers == [j \in 1 .. Len(hinvoked) |-> hinvoked[j].handler]

\* How often h is on the list xs.
Occurrences(xs, h) == Cardinality({ j \in 1 .. Len(xs) : xs[j] = h })

\* The list xs with every handler kept at its first registration only.
RECURSIVE FirstRegistrations(_)
FirstRegistrations(xs) ==
    IF xs = <<>> THEN <<>>
    ELSE LET front == FirstRegistrations(SubSeq(xs, 1, Len(xs) - 1))
         IN IF Occurrences(front, xs[Len(xs)]) > 0 THEN front
            ELSE Append(front, xs[Len(xs)])

\* C31 as stated: a fire that has returned has called every handler that was
\* registered when it was called exactly once, in registration order, and
\* none whose latest register/unregister call was an unregister; and fire
\* never passes on an exception derived from Exception.
C31_Original ==
    /\ hpc = "returned" =>
          /\ InvokedHandlers = FirstRegistrations(hcall)
          /\ \A h \in hgone0 : Occurrences(InvokedHandlers, h) = 0
    /\ hpc = "raised" => hinvoked[Len(hinvoked)].outcome # "Exception"

\* What fire has done so far, whatever the handlers did to the list meanwhile.
FireFollowsCallTimeList ==
    /\ hpc \in {"firing", "returned"} =>
          \A j \in 1 .. Len(hinvoked) : hinvoked[j].outcome # "BaseException"
    /\ hpc = "firing" => InvokedHandlers = SubSeq(hcall, 1, hidx)
    /\ hpc = "returned" => InvokedHandlers = hcall
    /\ hpc = "raised" =>
          /\ hinvoked # <<>>
          /\ hinvoked[Len(hinvoked)].outcome = "BaseException"
          /\ InvokedHandlers = SubSeq(hcall, 1, Len(hinvoked))

\* A step that takes a registration off the list takes off one, the earliest
\* of its handler.
UnregisterTakesOne ==
    Len(hhandlers') < Len(hhandlers) =>
       \E j \in 1 .. Len(hhandlers) :
          /\ \A i \in 1 .. j - 1 : hhandlers[i] # hhandlers[j]
          /\ hhandlers' = SubSeq(hhandlers, 1, j - 1)
                          \o SubSeq(hhandlers, j + 1, Len(hhandlers))
          /\ hhandlers[j] \in hgone'

\* C31 (amended): fire calls the handlers that were on the list when it was
\* called once per registration, in registration order, also when handlers
\* register or unregister meanwhile; an exception derived from Exception
\* neither leaves fire nor keeps the later handlers from being called, one
\* derived from BaseException only ends the fire; unregister takes one
\* registration of the handler off the list, the earliest.
C31_OncePerRegistration ==
    /\ []FireFollowsCallTimeList
    /\ [][UnregisterTakesOne]_vars

\* A fire has returned after calling a handler twice that was registered
\* three times and unregistered once; the first call raised, and the list has
\* changed since fire was called.
C31_Witness ==
    /\ hpc = "returned"
    /\ Len(hcall) = 2
    /\ hcall[1] = hcall[2]
    /\ hcall[1] \in hgone0
    /\ InvokedHandlers = hcall
    /\ hinvoked[1].outcome = "Exception"
    /\ hhandlers # hcall

\* ---------------------------------------------------------- PipelineMetrics
\* Every call the threads made has returned.
AllReturned == thr # <<>> /\ \A t \in DOMAIN thr : thr[t].pc = "idle"

\* C32: once every call of every thread has returned, batches is the number
\* of record_batch calls, total_packets the sum of their arguments, and every
\* stage's invocations, records_in, records_out and errors are the sums over
\* its record_stage calls, however the calls were interleaved.
C32_NoLostUpdate ==
    AllReturned =>
       /\ pmcount.batches = pmdone.batches
       /\ pmcount.total_packets = pmdone.total_packets
       /\ DOMAIN pmstages = DOMAIN pmdone.stages
       /\ \A s \in DOMAIN pmstages :
             /\ pmstages[s].invocations = pmdone.stages[s].invocations
             /\ pmstages[s].records_in = pmdone.stages[s].records_in
             /\ pmstages[s].records_out = pmdone.stages[s].records_out
             /\ pmstages[s].errors = pmdone.stages[s].errors

\* Two record_batch calls and a failed record_stage have returned, one of them
\* made while another thread held the lock.
C32_Witness ==
    /\ AllReturned
    /\ pmdone.overlapped
    /\ pmcount.batches = 2
    /\ \E s \in DOMAIN pmstages : pmstages[s].errors = 1

\* ------------------------------------------------------------------ loaders
\* The rows of parameter p in the first n batches loaded, batch after batch.
RECURSIVE RowsLoaded(_, _)
RowsLoaded(p, n) ==
    IF n = 0 THEN <<>>
    ELSE RowsLoaded(p, n - 1) \o ToDataframe(lloaded[n][p])

\* C33: with overwrite = False, after any number of loads the file of every
\* parameter holds the column names once, then the rows of the first batch,
\* then those of the second, and so on (a parameter of no batch has no file).
C33_AppendKeepsAll ==
    ~lcfg.overwrite =>
       \A p \in DOMAIN lfiles :
          LET rows == RowsLoaded(p, Len(lloaded))
          IN lfiles[p] =
                IF rows = <<>> THEN NoFile
                ELSE IF lcfg.kind = "csv"
                THEN [exists |-> TRUE, schema |-> <<>>,
                      lines |-> <<Columns>>
                                \o [j \in 1 .. Len(rows) |-> CsvLine(rows[j])]]
                ELSE [exists |-> TRUE, schema |-> Columns, lines |-> rows]

\* Two batches have gone through a CsvLoader with overwrite = False, both
\* with rows of the same parameter, the second with its samples out of order.
C33_Witness ==
    /\ lcfg = [kind |-> "csv", overwrite |-> FALSE]
    /\ Len(lloaded) = 2
    /\ lloaded[1]["temperature"] = <<0>>
    /\ lloaded[2]["temperature"] = <<10, 0>>
    /\ Len(lfiles["temperature"].lines) = 4

====
